---- MODULE Spec2Model ----
(***************************************************************************)
(* Token-based voter authentication and single-vote integrity of the       *)
(* offline election backend: token issuance (BulkTokenGenerator), token    *)
(* verification and session check (auth_router), voter and staff           *)
(* authentication (auth_middleware) and vote casting (voting_router),      *)
(* against one shared relational store.                                    *)
(*                                                                         *)
(* Time is an integer number of milliseconds.  A text is a sequence of     *)
(* one-character strings.  A row id is the row's index in its table.       *)
(***************************************************************************)
EXTENDS Integers, Sequences, FiniteSets, TLC

\* ------------------------------------------------------------------ bounds
\* how many times the clock advances in one behaviour
MaxTicks == 2
\* how many different outcomes the random source of _generate_token has
NumDraws == 2
\* rows the voting_sessions table may hold
MaxSessions == 2
\* rows the votes table may hold
MaxVotes == 3
\* authenticated requests one session may serve (activity_count)
MaxActivity == 1
\* admitted requests followed beyond max_attempts for the busy address, and
\* admitted requests followed for the other address
MaxExtra == 1
\* the largest roster for which the turnout is computed
MaxRoster == 8

\* ------------------------------------------------------- program constants
\* timedelta(minutes=30) of the VotingSession created by verify_voting_id
SESSION_TTL_MINUTES == 30
\* timedelta(hours=24) of the VotingToken created by the generator
TOKEN_TTL_HOURS == 24
\* range(4) in BulkTokenGenerator._generate_token
GENERATED_TOKEN_LENGTH == 4
\* length=8 of TokenManager.create_voting_token
FRIENDLY_TOKEN_LENGTH == 8
\* len(clean_token) != 8 in verify_voting_id
EXPECTED_TOKEN_LENGTH == 8

SessionTTL == SESSION_TTL_MINUTES * 60 * 1000
TokenTTL == TOKEN_TTL_HOURS * 60 * 60 * 1000

\* Python's None for a nullable timestamp or row id
None == 0 - 1

\* ------------------------------------------------------------- TokenCodec
\* the part of the 32-symbol alphabet the model draws from
SAFE_CHARS == <<"A", "B", "2", "3">>

\* str.upper() on one character
UpperChar(c) ==
    CASE c = "a" -> "A"
      [] c = "b" -> "B"
      [] OTHER -> c

\* str.upper()
Upper(s) == [i \in 1..Len(s) |-> UpperChar(s[i])]

\* str.replace(ch, "")
RECURSIVE Remove(_, _)
Remove(s, ch) ==
    IF s = <<>> THEN <<>>
    ELSE IF Head(s) = ch THEN Remove(Tail(s), ch)
    ELSE <<Head(s)>> \o Remove(Tail(s), ch)

\* str.lstrip() and str.rstrip(): the only whitespace of the model is " "
RECURSIVE LStrip(_)
LStrip(s) == IF s # <<>> /\ Head(s) = " " THEN LStrip(Tail(s)) ELSE s

RECURSIVE RStrip(_)
RStrip(s) ==
    IF s # <<>> /\ s[Len(s)] = " " THEN RStrip(SubSeq(s, 1, Len(s) - 1)) ELSE s

Strip(s) == LStrip(RStrip(s))

AlnumChars == {"A", "B", "a", "b", "2", "3"}

\* str.isalnum(): false on the empty string
IsAlnum(s) == s # <<>> /\ \A i \in 1..Len(s) : s[i] \in AlnumChars

\* a normalization that keeps the case of the letters
normalize_tokenNoUpper(token) == Remove(Remove(token, "-"), " ")

\* token.replace("-", "").replace(" ", "").upper()
normalize_token(token) == Upper(Remove(Remove(token, "-"), " "))

\* hashlib.sha256(...).hexdigest(): a digest is modelled as collision-free
sha256(text) == <<"sha256", text>>

\* a _hash_token that keeps the normalized text instead of its digest
hash_tokenPlain(token) == normalize_token(token)

\* BulkTokenGenerator._hash_token
hash_token(token) == sha256(normalize_token(token))

\* TokenManager.hash_voting_token
hash_voting_token(token) == sha256(normalize_token(token))

\* the i-th outcome of the random source: GENERATED_TOKEN_LENGTH symbols
RECURSIVE Pow(_, _)
Pow(b, n) == IF n = 0 THEN 1 ELSE b * Pow(b, n - 1)

generate_token(i) ==
    [k \in 1..GENERATED_TOKEN_LENGTH |->
        SAFE_CHARS[((i \div Pow(2, k - 1)) % Len(SAFE_CHARS)) + 1]]

\* FriendlyTokenGenerator.generate_voting_token(length=8): AB12-CD34
generate_voting_token(code) ==
    SubSeq(code, 1, 4) \o <<"-">> \o SubSeq(code, 5, FRIENDLY_TOKEN_LENGTH)

\* ------------------------------------------------------------- the roster
Electorates == {"e1", "e2", "e3"}
\* an id that is a well-formed UUID and names no row
UnknownId == "e0"
\* the soft-deleted electorate of the roster
SoftDeleted == {"e3"}

\* ----------------------------------------------------- StudentIDConverter
\* str.replace(old, new) for single characters
Replace(s, old, new) ==
    [i \in 1..Len(s) |-> IF s[i] = old THEN new ELSE s[i]]

\* schemas.StudentIDConverter.to_storage
to_storage(student_id) ==
    IF student_id = <<>> THEN student_id
    ELSE Replace(Upper(Strip(student_id)), "/", "-")

\* schemas.StudentIDConverter.to_display
to_display(student_id) ==
    IF student_id = <<>> THEN student_id
    ELSE Replace(Strip(student_id), "-", "/")

\* schemas.StudentIDConverter.normalize
normalize(student_id) ==
    IF student_id = <<>> THEN student_id
    ELSE Replace(Upper(Strip(student_id)), "/", "-")

\* token_generation_service.StudentIDConverter.to_storage
service_to_storage(student_id) == Replace(student_id, "/", "-")

\* token_generation_service.StudentIDConverter.to_display
service_to_display(student_id) == Replace(student_id, "-", "/")

\* the column student_id of the roster, as ElectorateCreate stored it
student_id ==
    [e1 |-> normalize(<<"a", "b", "/", "2", "3">>),
     e2 |-> normalize(<<"B", "A", "-", "3", "2">>),
     e3 |-> normalize(<<" ", "B", "B", "/", "2", "2">>)]

Portfolios == {"p1", "p2"}

\* the candidates table: admin CRUD is outside the model, the table is fixed
Candidates ==
    [c1 |-> [portfolio_id |-> "p1", is_active |-> TRUE],
     c2 |-> [portfolio_id |-> "p1", is_active |-> TRUE],
     c3 |-> [portfolio_id |-> "p2", is_active |-> TRUE],
     c4 |-> [portfolio_id |-> "p2", is_active |-> FALSE]]

\* the 8 symbols FriendlyTokenGenerator drew for each electorate's first token
FriendlyCode(e) ==
    CASE e = "e1" -> <<"A", "B", "2", "3", "A", "B", "2", "3">>
      [] e = "e2" -> <<"B", "A", "3", "2", "B", "A", "3", "2">>
      [] OTHER -> <<"A", "A", "B", "B", "2", "2", "3", "3">>

VARIABLES
    now,              \* datetime.now(timezone.utc)
    nticks,           \* how often the clock has advanced
    electorates,      \* table students: id -> row
    voting_tokens,    \* table voting_tokens: sequence of rows
    voting_sessions,  \* table voting_sessions: sequence of rows
    votes,            \* table votes: sequence of rows
    req,              \* the requests in flight, one per slot
    response,         \* the response of the request that completed last
    attempts,         \* RateLimiter.attempts of the two limiter instances
    admitted          \* history: when each limiter admitted each address

vars ==
    <<now, nticks, electorates, voting_tokens, voting_sessions, votes, req,
      response, attempts, admitted>>


\* ------------------------------------------------------------ credentials
\* jwt.encode of create_access_token: a signed payload with its expiry
Credential(type, sub, session_id, role, exp) ==
    [signed |-> TRUE, type |-> type, sub |-> sub, session_id |-> session_id,
     role |-> role, exp |-> exp]

\* a bearer string that is no token signed with SECRET_KEY
Garbage ==
    [signed |-> FALSE, type |-> "none", sub |-> "none", session_id |-> None,
     role |-> "none", exp |-> None]

\* TokenManager.decode_token: the payload, or ValueError.  jwt.decode compares
\* the exp claim and the clock as whole seconds ("exp < now" is expired)
decode_token(cred, t) ==
    IF cred.signed /\ ~((cred.exp \div 1000) < (t \div 1000))
    THEN [ok |-> TRUE, payload |-> cred]
    ELSE [ok |-> FALSE, payload |-> cred]

\* the credential verify_voting_id mints for the session row it has committed
VoterCredential(sessions, sid) ==
    Credential("voting_session", sessions[sid].electorate_id, sid, "none",
               sessions[sid].expires_at)

\* ------------------------------------------------------------------- rows
Electorate(e) ==
    [has_voted |-> FALSE, voted_at |-> None, is_deleted |-> e \in SoftDeleted]

VotingToken(electorate_id, token_hash, expires_at) ==
    [electorate_id |-> electorate_id, token_hash |-> token_hash,
     is_active |-> TRUE, usage_count |-> 0,
     expires_at |-> expires_at, revoked |-> FALSE]

\* a session row that is bound to no electorate
VotingSessionUnbound(electorate_id, t) ==
    [electorate_id |-> "none", is_valid |-> TRUE,
     expires_at |-> t + SessionTTL,
     terminated_at |-> None, termination_reason |-> "none",
     activity_count |-> 0]

VotingSession(electorate_id, t) ==
    [electorate_id |-> electorate_id, is_valid |-> TRUE,
     expires_at |-> t + SessionTTL,
     terminated_at |-> None, termination_reason |-> "none",
     activity_count |-> 0]

Vote(electorate_id, portfolio_id, candidate_id, voting_session_id, t) ==
    [electorate_id |-> electorate_id, portfolio_id |-> portfolio_id,
     candidate_id |-> candidate_id, voting_session_id |-> voting_session_id,
     is_valid |-> TRUE]

\* VotingSession.terminate
terminate(session, reason, t) ==
    [session EXCEPT !.is_valid = FALSE, !.terminated_at = t,
                    !.termination_reason = reason]

\* VotingSession.update_activity (the activity counter)
update_activity(session, t) ==
    [session EXCEPT !.activity_count = session.activity_count + 1]

Slots == {1, 2}
Idle == [kind |-> "idle"]
NoResponse == [op |-> "none", status |-> 0, detail |-> "none"]

\* auth_rate_limiter and voting_rate_limiter
Limiters ==
    [auth |-> [max_attempts |-> 10, window_seconds |-> 300],
     voting |-> [max_attempts |-> 5, window_seconds |-> 60]]

\* request.client.host of the clients whose attempts are followed
ClientAddresses == {"10.0.0.1", "10.0.0.2"}

\* defaultdict(list): no address has attempted anything
NoAttempts == [l \in DOMAIN Limiters |-> [a \in ClientAddresses |-> <<>>]]

\* the roster as imported, each electorate holding the first token that
\* TokenManager.create_voting_token / hash_voting_token made for it at time 0
Init ==
    /\ now = 0
    /\ nticks = 0
    /\ electorates = [e \in Electorates |-> Electorate(e)]
    /\ voting_tokens =
         <<VotingToken("e1", hash_voting_token(generate_voting_token(FriendlyCode("e1"))), TokenTTL),
           VotingToken("e2", hash_voting_token(generate_voting_token(FriendlyCode("e2"))), TokenTTL),
           VotingToken("e3", hash_voting_token(generate_voting_token(FriendlyCode("e3"))), TokenTTL)>>
    /\ voting_sessions = <<>>
    /\ votes = <<>>
    /\ req = [s \in Slots |-> Idle]
    /\ response = NoResponse
    /\ attempts = NoAttempts
    /\ admitted = NoAttempts

\* ------------------------------------------------------------------ clock
TickSteps == {1, SessionTTL, TokenTTL}

Tick(d) ==
    /\ nticks < MaxTicks
    /\ now' = now + d
    /\ nticks' = nticks + 1
    /\ UNCHANGED <<electorates, voting_tokens, voting_sessions, votes, req,
                   response>>


\* --------------------------------------------------- SessionAuthenticator
\* what a client may type into the token field
RawTokens ==
    {generate_voting_token(FriendlyCode(e)) : e \in Electorates}
    \cup {FriendlyCode("e1"),
          <<" ", "a", "b", "2", "3", "-", "a", "b", "2", "3", " ">>}
    \cup {generate_token(i) : i \in 1..NumDraws}
    \cup {<<>>, <<" ">>, <<"-">>,
          <<"B", "B", "B", "B", "A", "A", "A", "A">>,
          <<"A", "B", "2", "3", "A", "B", "2", "!">>}

\* crud_voting_tokens.get_voting_token_by_hash: the row id, or None
get_voting_token_by_hash(tokens, token_hash) ==
    IF \E i \in DOMAIN tokens : tokens[i].token_hash = token_hash
    THEN CHOOSE i \in DOMAIN tokens : tokens[i].token_hash = token_hash
    ELSE None

\* crud_voting_tokens.update_token_usage
update_token_usage(tokens, token_id, t) ==
    [tokens EXCEPT ![token_id].usage_count = tokens[token_id].usage_count + 1]

\* the fields of schemas.TokenVerificationResponse that have no default
TokenVerificationResponseRequired ==
    {"success", "access_token", "expires_in", "electorate"}

\* TokenVerificationResponse(**given): pydantic validates the required fields
TokenVerificationResponse(given) ==
    TokenVerificationResponseRequired \subseteq given

\* the checks of verify_voting_id without the comparison of expires_at
VerifyChecksNoExpiry(raw, tokens, voters, t) ==
    LET token_input == Strip(raw)
        clean_token == normalize_token(token_input)
        token_id == get_voting_token_by_hash(tokens, sha256(clean_token))
    IN  IF token_input = <<>>
        THEN [status |-> 400, detail |-> "Token cannot be empty", token_id |-> None]
        ELSE IF Len(clean_token) # EXPECTED_TOKEN_LENGTH
        THEN [status |-> 400, detail |-> "Invalid token format", token_id |-> None]
        ELSE IF ~IsAlnum(clean_token)
        THEN [status |-> 400, detail |-> "Token must be alphanumeric", token_id |-> None]
        ELSE IF token_id = None
        THEN [status |-> 401, detail |-> "Invalid token", token_id |-> None]
        ELSE IF tokens[token_id].revoked
        THEN [status |-> 401, detail |-> "Token revoked", token_id |-> token_id]
        ELSE IF \/ tokens[token_id].electorate_id \notin DOMAIN voters
                \/ voters[tokens[token_id].electorate_id].is_deleted
        THEN [status |-> 404, detail |-> "Voter not found", token_id |-> token_id]
        ELSE [status |-> 200, detail |-> "ok", token_id |-> token_id]

\* the checks of verify_voting_id with revoked tested before expires_at
VerifyChecksRevokedFirst(raw, tokens, voters, t) ==
    LET token_input == Strip(raw)
        clean_token == normalize_token(token_input)
        token_id == get_voting_token_by_hash(tokens, sha256(clean_token))
    IN  IF token_input = <<>>
        THEN [status |-> 400, detail |-> "Token cannot be empty", token_id |-> None]
        ELSE IF Len(clean_token) # EXPECTED_TOKEN_LENGTH
        THEN [status |-> 400, detail |-> "Invalid token format", token_id |-> None]
        ELSE IF ~IsAlnum(clean_token)
        THEN [status |-> 400, detail |-> "Token must be alphanumeric", token_id |-> None]
        ELSE IF token_id = None
        THEN [status |-> 401, detail |-> "Invalid token", token_id |-> None]
        ELSE IF tokens[token_id].revoked
        THEN [status |-> 401, detail |-> "Token revoked", token_id |-> token_id]
        ELSE IF t > tokens[token_id].expires_at
        THEN [status |-> 401, detail |-> "Token expired", token_id |-> token_id]
        ELSE IF \/ tokens[token_id].electorate_id \notin DOMAIN voters
                \/ voters[tokens[token_id].electorate_id].is_deleted
        THEN [status |-> 404, detail |-> "Voter not found", token_id |-> token_id]
        ELSE [status |-> 200, detail |-> "ok", token_id |-> token_id]

\* the checks of verify_voting_id in the order of the code; "ok" when all pass
VerifyChecks(raw, tokens, voters, t) ==
    LET token_input == Strip(raw)
        clean_token == normalize_token(token_input)
        token_id == get_voting_token_by_hash(tokens, sha256(clean_token))
    IN  IF token_input = <<>>
        THEN [status |-> 400, detail |-> "Token cannot be empty", token_id |-> None]
        ELSE IF Len(clean_token) # EXPECTED_TOKEN_LENGTH
        THEN [status |-> 400, detail |-> "Invalid token format", token_id |-> None]
        ELSE IF ~IsAlnum(clean_token)
        THEN [status |-> 400, detail |-> "Token must be alphanumeric", token_id |-> None]
        ELSE IF token_id = None
        THEN [status |-> 401, detail |-> "Invalid token", token_id |-> None]
        ELSE IF t > tokens[token_id].expires_at
        THEN [status |-> 401, detail |-> "Token expired", token_id |-> token_id]
        ELSE IF tokens[token_id].revoked
        THEN [status |-> 401, detail |-> "Token revoked", token_id |-> token_id]
        ELSE IF \/ tokens[token_id].electorate_id \notin DOMAIN voters
                \/ voters[tokens[token_id].electorate_id].is_deleted
        THEN [status |-> 404, detail |-> "Voter not found", token_id |-> token_id]
        ELSE [status |-> 200, detail |-> "ok", token_id |-> token_id]

\* a verification that counts the use of the token row before its checks
verify_voting_idCountsFirst(raw) ==
    LET chk == VerifyChecks(raw, voting_tokens, electorates, now)
        sid == Len(voting_sessions) + 1
        built == TokenVerificationResponse(
                     {"access_token", "token_type", "valid", "electorate",
                      "message"})
    IN  /\ IF chk.status # 200
           THEN /\ response' =
                     [op |-> "verify_voting_id", token |-> raw,
                      status |-> chk.status, detail |-> chk.detail,
                      session_id |-> None, access_token |-> FALSE]
                /\ voting_tokens' =
                     IF chk.token_id # None
                     THEN update_token_usage(voting_tokens, chk.token_id, now)
                     ELSE voting_tokens
                /\ UNCHANGED voting_sessions
           ELSE /\ Len(voting_sessions) < MaxSessions
                /\ voting_tokens' =
                     update_token_usage(voting_tokens, chk.token_id, now)
                /\ voting_sessions' =
                     Append(voting_sessions,
                            VotingSession(voting_tokens[chk.token_id].electorate_id,
                                          now))
                /\ response' =
                     [op |-> "verify_voting_id", token |-> raw,
                      status |-> IF built THEN 200 ELSE 500,
                      detail |-> IF built THEN "Token verified successfully"
                                 ELSE "ValidationError",
                      session_id |-> sid, access_token |-> built]
        /\ UNCHANGED <<now, nticks, electorates, votes, req>>

\* POST /auth/verify-id
verify_voting_id(raw) ==
    LET chk == VerifyChecks(raw, voting_tokens, electorates, now)
        sid == Len(voting_sessions) + 1
        built == TokenVerificationResponse(
                     {"access_token", "token_type", "valid", "electorate",
                      "message"})
    IN  /\ IF chk.status # 200
           THEN /\ response' =
                     [op |-> "verify_voting_id", token |-> raw,
                      status |-> chk.status, detail |-> chk.detail,
                      session_id |-> None, access_token |-> FALSE]
                /\ UNCHANGED <<voting_tokens, voting_sessions>>
           ELSE /\ Len(voting_sessions) < MaxSessions
                /\ voting_tokens' =
                     update_token_usage(voting_tokens, chk.token_id, now)
                /\ voting_sessions' =
                     Append(voting_sessions,
                            VotingSession(voting_tokens[chk.token_id].electorate_id,
                                          now))
                /\ response' =
                     [op |-> "verify_voting_id", token |-> raw,
                      status |-> IF built THEN 200 ELSE 500,
                      detail |-> IF built THEN "Token verified successfully"
                                 ELSE "ValidationError",
                      session_id |-> sid, access_token |-> built]
        /\ UNCHANGED <<now, nticks, electorates, votes, req>>

\* the credentials a request may carry: those minted for the session rows,
\* one that is not signed, and those of the staff (below)
VoterCredentials ==
    {VoterCredential(voting_sessions, s) : s \in DOMAIN voting_sessions}

\* int((expires_at - now).total_seconds())
\* the difference taken the wrong way round
SecondsBetweenSwapped(later, earlier) ==
    IF earlier >= later THEN (earlier - later) \div 1000
    ELSE 0 - ((later - earlier) \div 1000)

SecondsBetween(later, earlier) ==
    IF later >= earlier THEN (later - earlier) \div 1000
    ELSE 0 - ((earlier - later) \div 1000)

Max(a, b) == IF a >= b THEN a ELSE b

\* the checks of verify_session without the comparison of expires_at
SessionChecksNoExpiry(bearer, cred, sessions, t) ==
    LET dec == decode_token(cred, t)
        sid == dec.payload.session_id
    IN  IF ~bearer
        THEN [valid |-> FALSE, status |-> 401,
              detail |-> "Invalid authorization header", expires_in |-> None]
        ELSE IF \/ ~dec.ok
                \/ sid = None
                \/ sid \notin DOMAIN sessions
                \/ ~sessions[sid].is_valid
        THEN [valid |-> FALSE, status |-> 401, detail |-> "Invalid token",
              expires_in |-> None]
        ELSE [valid |-> TRUE, status |-> 200, detail |-> "ok",
              expires_in |->
                  Max(0, SecondsBetween(sessions[sid].expires_at, t))]

\* the checks of verify_session; every exception raised inside its try block
\* is answered 401 "Invalid token"
SessionChecks(bearer, cred, sessions, t) ==
    LET dec == decode_token(cred, t)
        sid == dec.payload.session_id
    IN  IF ~bearer
        THEN [valid |-> FALSE, status |-> 401,
              detail |-> "Invalid authorization header", expires_in |-> None]
        ELSE IF \/ ~dec.ok
                \/ sid = None
                \/ sid \notin DOMAIN sessions
                \/ ~sessions[sid].is_valid
                \/ t > sessions[sid].expires_at
        THEN [valid |-> FALSE, status |-> 401, detail |-> "Invalid token",
              expires_in |-> None]
        ELSE [valid |-> TRUE, status |-> 200, detail |-> "ok",
              expires_in |->
                  Max(0, SecondsBetween(sessions[sid].expires_at, t))]

\* GET /auth/verify-session
verify_session(bearer, cred) ==
    LET chk == SessionChecks(bearer, cred, voting_sessions, now)
    IN  /\ response' =
             [op |-> "verify_session", session_id |-> cred.session_id,
              status |-> chk.status, detail |-> chk.detail,
              valid |-> chk.valid, expires_in |-> chk.expires_in,
              at |-> now]
        /\ UNCHANGED <<now, nticks, electorates, voting_tokens,
                       voting_sessions, votes, req>>

\* ------------------------------------------------------ voter middleware
\* _validate_voter_session without the comparison of expires_at and the clock
validate_voter_sessionNoExpiry(sessions, session_id, electorate_id, t) ==
    IF session_id \notin DOMAIN sessions
    THEN [ok |-> FALSE, sessions |-> sessions]
    ELSE IF ~sessions[session_id].is_valid
    THEN [ok |-> FALSE, sessions |-> sessions]
    ELSE IF sessions[session_id].electorate_id # electorate_id
    THEN [ok |-> FALSE,
          sessions |->
              [sessions EXCEPT ![session_id] =
                   terminate(sessions[session_id], "Session mismatch", t)]]
    ELSE [ok |-> TRUE,
          sessions |->
              [sessions EXCEPT ![session_id] =
                   update_activity(sessions[session_id], t)]]

\* _validate_voter_session that refuses an expired session and leaves its
\* row as it is
validate_voter_sessionNoTerminate(sessions, session_id, electorate_id, t) ==
    IF session_id \notin DOMAIN sessions
    THEN [ok |-> FALSE, sessions |-> sessions]
    ELSE IF ~sessions[session_id].is_valid
            \/ sessions[session_id].expires_at < t
    THEN [ok |-> FALSE, sessions |-> sessions]
    ELSE IF sessions[session_id].electorate_id # electorate_id
    THEN [ok |-> FALSE,
          sessions |->
              [sessions EXCEPT ![session_id] =
                   terminate(sessions[session_id], "Session mismatch", t)]]
    ELSE [ok |-> TRUE,
          sessions |->
              [sessions EXCEPT ![session_id] =
                   update_activity(sessions[session_id], t)]]

\* _validate_voter_session: the session (ok) or None, and the table as
\* committed by it
validate_voter_session(sessions, session_id, electorate_id, t) ==
    IF session_id \notin DOMAIN sessions
    THEN [ok |-> FALSE, sessions |-> sessions]
    ELSE IF ~sessions[session_id].is_valid
            \/ sessions[session_id].expires_at < t
    THEN [ok |-> FALSE,
          sessions |->
              IF sessions[session_id].is_valid
              THEN [sessions EXCEPT ![session_id] =
                        terminate(sessions[session_id], "Session expired", t)]
              ELSE sessions]
    ELSE IF sessions[session_id].electorate_id # electorate_id
    THEN [ok |-> FALSE,
          sessions |->
              [sessions EXCEPT ![session_id] =
                   terminate(sessions[session_id], "Session mismatch", t)]]
    ELSE [ok |-> TRUE,
          sessions |->
              [sessions EXCEPT ![session_id] =
                   update_activity(sessions[session_id], t)]]

\* get_current_voter: the voter (status 200) or the HTTP error, and the
\* sessions table as the dependency leaves it
get_current_voter(cred, voters, sessions, t) ==
    LET dec == decode_token(cred, t)
        payload == dec.payload
        checked == validate_voter_session(sessions, payload.session_id,
                                          payload.sub, t)
    IN  IF ~dec.ok
        THEN [status |-> 401, detail |-> "Invalid authentication credentials",
              voter |-> "none", sessions |-> sessions]
        ELSE IF payload.type # "voting_session"
        THEN [status |-> 401, detail |-> "Invalid token type",
              voter |-> "none", sessions |-> sessions]
        ELSE IF payload.sub = "none"
        THEN [status |-> 401, detail |-> "Invalid token",
              voter |-> "none", sessions |-> sessions]
        ELSE IF payload.sub \notin DOMAIN voters \/ voters[payload.sub].is_deleted
        THEN [status |-> 404, detail |-> "Voter not found",
              voter |-> "none", sessions |-> sessions]
        ELSE IF payload.session_id # None /\ ~checked.ok
        THEN [status |-> 401, detail |-> "Session expired. Please login again.",
              voter |-> "none", sessions |-> checked.sessions]
        ELSE [status |-> 200, detail |-> "ok", voter |-> payload.sub,
              sessions |-> IF payload.session_id # None THEN checked.sessions
                           ELSE sessions]

\* ------------------------------------------------------------- VoteLedger
VoteCreate(portfolio_id, candidate_id) ==
    [portfolio_id |-> portfolio_id, candidate_id |-> candidate_id]

\* the request bodies of POST /voting/vote
Batches ==
    {<<VoteCreate("p1", "c1")>>,
     <<VoteCreate("p1", "c2")>>,
     <<VoteCreate("p2", "c3")>>,
     <<VoteCreate("p1", "c1"), VoteCreate("p2", "c3")>>,
     <<VoteCreate("p1", "c3")>>,
     <<VoteCreate("p2", "c4")>>,
     <<VoteCreate("p1", "c9"), VoteCreate("p2", "c3")>>,
     <<VoteCreate("p1", "c1"), VoteCreate("p1", "c2")>>,
     <<VoteCreate("p2", "c3"), VoteCreate("p1", "c1"), VoteCreate("p1", "c2")>>,
     <<>>}

\* VotingCreation.validate_votes_not_empty
validate_votes_not_empty(v) == v # <<>>

\* a validator that compares nothing
validate_unique_portfoliosOff(v) == TRUE

\* VotingCreation.validate_unique_portfolios
validate_unique_portfolios(v) ==
    Len(v) = Cardinality({v[i].portfolio_id : i \in DOMAIN v})

\* VotingCreation: the body passes both validators of its field votes
VotingCreation(batch) ==
    /\ validate_votes_not_empty(batch)
    /\ validate_unique_portfolios(batch)

\* the message of the first validator that refuses the body
VotingCreationError(batch) ==
    IF ~validate_votes_not_empty(batch)
    THEN "At least one vote is required"
    ELSE "Cannot vote for the same portfolio multiple times"

\* crud_votes.check_electorate_voted_for_portfolio
check_electorate_voted_for_portfolio(rows, electorate_id, portfolio_id) ==
    \E i \in DOMAIN rows :
        /\ rows[i].electorate_id = electorate_id
        /\ rows[i].portfolio_id = portfolio_id
        /\ rows[i].is_valid

\* crud_votes.create_vote: the votes table with the new row
create_vote(rows, vote_data, electorate_id, voting_session_id, t) ==
    Append(rows, Vote(electorate_id, vote_data.portfolio_id,
                      vote_data.candidate_id, voting_session_id, t))

FailedVote(vote_request, error) ==
    [portfolio_id |-> vote_request.portfolio_id,
     candidate_id |-> vote_request.candidate_id, error |-> error]

\* crud_candidates.get_candidate_engine: the candidate row, or none found
get_candidate_engine(candidate_id) ==
    IF candidate_id \in DOMAIN Candidates
    THEN [found |-> TRUE,
          portfolio_id |-> Candidates[candidate_id].portfolio_id,
          is_active |-> Candidates[candidate_id].is_active]
    ELSE [found |-> FALSE, portfolio_id |-> "none", is_active |-> FALSE]

\* the checks on one pair without the comparison of the candidate's portfolio
VoteChecksNoPortfolio(rows, electorate_id, vote_request) ==
    IF check_electorate_voted_for_portfolio(rows, electorate_id,
                                            vote_request.portfolio_id)
    THEN "Already voted for this portfolio"
    ELSE IF ~get_candidate_engine(vote_request.candidate_id).found
    THEN "Candidate not found"
    ELSE IF ~get_candidate_engine(vote_request.candidate_id).is_active
    THEN "Candidate is not active"
    ELSE "ok"

\* the checks on one pair without the look-up of an earlier vote
VoteChecksNoLookup(rows, electorate_id, vote_request) ==
    IF ~get_candidate_engine(vote_request.candidate_id).found
    THEN "Candidate not found"
    ELSE IF get_candidate_engine(vote_request.candidate_id).portfolio_id
                # vote_request.portfolio_id
    THEN "Candidate does not belong to this portfolio"
    ELSE IF ~get_candidate_engine(vote_request.candidate_id).is_active
    THEN "Candidate is not active"
    ELSE "ok"

\* the checks on one pair with a refusal of an electorate that is marked
VoteChecksOncePerVoter(rows, electorate_id, vote_request) ==
    IF \/ electorates[electorate_id].has_voted
       \/ check_electorate_voted_for_portfolio(rows, electorate_id,
                                               vote_request.portfolio_id)
    THEN "Already voted for this portfolio"
    ELSE IF ~get_candidate_engine(vote_request.candidate_id).found
    THEN "Candidate not found"
    ELSE IF get_candidate_engine(vote_request.candidate_id).portfolio_id
                # vote_request.portfolio_id
    THEN "Candidate does not belong to this portfolio"
    ELSE IF ~get_candidate_engine(vote_request.candidate_id).is_active
    THEN "Candidate is not active"
    ELSE "ok"

\* the checks cast_vote makes on one pair before it creates the vote
VoteChecks(rows, electorate_id, vote_request) ==
    IF check_electorate_voted_for_portfolio(rows, electorate_id,
                                            vote_request.portfolio_id)
    THEN "Already voted for this portfolio"
    ELSE IF ~get_candidate_engine(vote_request.candidate_id).found
    THEN "Candidate not found"
    ELSE IF get_candidate_engine(vote_request.candidate_id).portfolio_id
                # vote_request.portfolio_id
    THEN "Candidate does not belong to this portfolio"
    ELSE IF ~get_candidate_engine(vote_request.candidate_id).is_active
    THEN "Candidate is not active"
    ELSE "ok"

\* POST /voting/vote, up to the loop: the dependency get_current_voter, then
\* the validation of the body
cast_vote_begin(s, cred, batch) ==
    LET auth == get_current_voter(cred, electorates, voting_sessions, now)
    IN  /\ req[s] = Idle
        /\ \A i \in DOMAIN auth.sessions :
               auth.sessions[i].activity_count <= MaxActivity
        /\ voting_sessions' = auth.sessions
        /\ IF auth.status # 200
           THEN /\ response' =
                     [op |-> "cast_vote", status |-> auth.status,
                      detail |-> auth.detail]
                /\ UNCHANGED req
           ELSE IF ~VotingCreation(batch)
           THEN /\ response' =
                     [op |-> "cast_vote", status |-> 422,
                      detail |-> VotingCreationError(batch)]
                /\ UNCHANGED req
           ELSE /\ req' = [req EXCEPT ![s] =
                     [kind |-> "cast_vote", pc |-> "check",
                      electorate |-> auth.voter,
                      session_id |-> cred.session_id, batch |-> batch,
                      todo |-> batch, votes |-> <<>>, failed_votes |-> <<>>]]
                /\ UNCHANGED response
        /\ UNCHANGED <<now, nticks, electorates, voting_tokens, votes>>

\* one pass of the loop in which a refused pair ends the loop
cast_vote_checkBreak(s) ==
    /\ req[s].kind = "cast_vote"
    /\ req[s].pc = "check"
    /\ req[s].todo # <<>>
    /\ LET vote_request == Head(req[s].todo)
           error == VoteChecks(votes, req[s].electorate, vote_request)
       IN  IF error # "ok"
           THEN req' = [req EXCEPT
                    ![s].failed_votes =
                        Append(req[s].failed_votes,
                               FailedVote(vote_request, error)),
                    ![s].todo = <<>>]
           ELSE req' = [req EXCEPT ![s].pc = "insert"]
    /\ UNCHANGED <<now, nticks, electorates, voting_tokens, voting_sessions,
                   votes, response>>

\* one pass of the loop up to create_vote
cast_vote_check(s) ==
    /\ req[s].kind = "cast_vote"
    /\ req[s].pc = "check"
    /\ req[s].todo # <<>>
    /\ LET vote_request == Head(req[s].todo)
           error == VoteChecks(votes, req[s].electorate, vote_request)
       IN  IF error # "ok"
           THEN req' = [req EXCEPT
                    ![s].failed_votes =
                        Append(req[s].failed_votes,
                               FailedVote(vote_request, error)),
                    ![s].todo = Tail(req[s].todo)]
           ELSE req' = [req EXCEPT ![s].pc = "insert"]
    /\ UNCHANGED <<now, nticks, electorates, voting_tokens, voting_sessions,
                   votes, response>>

\* create_vote of the pair that passed the checks
cast_vote_insert(s) ==
    /\ req[s].kind = "cast_vote"
    /\ req[s].pc = "insert"
    /\ Len(votes) < MaxVotes
    /\ votes' = create_vote(votes, Head(req[s].todo), req[s].electorate,
                            req[s].session_id, now)
    /\ req' = [req EXCEPT ![s].votes = Append(req[s].votes, Len(votes) + 1),
                          ![s].todo = Tail(req[s].todo),
                          ![s].pc = "check"]
    /\ UNCHANGED <<now, nticks, electorates, voting_tokens, voting_sessions,
                   response>>

\* after the loop: answer without marking the electorate
cast_vote_finishNoMark(s) ==
    /\ req[s].kind = "cast_vote"
    /\ req[s].pc = "check"
    /\ req[s].todo = <<>>
    /\ response' =
         [op |-> "cast_vote", status |-> 200, detail |-> "ok",
          electorate |-> req[s].electorate,
          success |-> Len(req[s].votes) > 0,
          votes_cast |-> Len(req[s].votes),
          votes |-> req[s].votes,
          failed_votes |-> req[s].failed_votes]
    /\ req' = [req EXCEPT ![s] = Idle]
    /\ UNCHANGED <<now, nticks, electorates, voting_tokens, voting_sessions,
                   votes>>

\* after the loop: set the flag without the timestamp, commit, answer
cast_vote_finishNoTimestamp(s) ==
    /\ req[s].kind = "cast_vote"
    /\ req[s].pc = "check"
    /\ req[s].todo = <<>>
    /\ electorates' =
         IF req[s].votes # <<>>
         THEN [electorates EXCEPT ![req[s].electorate].has_voted = TRUE]
         ELSE electorates
    /\ response' =
         [op |-> "cast_vote", status |-> 200, detail |-> "ok",
          electorate |-> req[s].electorate,
          success |-> Len(req[s].votes) > 0,
          votes_cast |-> Len(req[s].votes),
          votes |-> req[s].votes,
          failed_votes |-> req[s].failed_votes]
    /\ req' = [req EXCEPT ![s] = Idle]
    /\ UNCHANGED <<now, nticks, voting_tokens, voting_sessions, votes>>

\* after the loop: mark the electorate, commit, answer
cast_vote_finish(s) ==
    /\ req[s].kind = "cast_vote"
    /\ req[s].pc = "check"
    /\ req[s].todo = <<>>
    /\ electorates' =
         IF req[s].votes # <<>>
         THEN [electorates EXCEPT ![req[s].electorate].has_voted = TRUE,
                                  ![req[s].electorate].voted_at = now]
         ELSE electorates
    /\ response' =
         [op |-> "cast_vote", status |-> 200, detail |-> "ok",
          electorate |-> req[s].electorate,
          success |-> Len(req[s].votes) > 0,
          votes_cast |-> Len(req[s].votes),
          votes |-> req[s].votes,
          failed_votes |-> req[s].failed_votes]
    /\ req' = [req EXCEPT ![s] = Idle]
    /\ UNCHANGED <<now, nticks, voting_tokens, voting_sessions, votes>>

\* ------------------------------------------------------- staff middleware
\* the users of ADMIN_USERS, EC_OFFICIAL_USERS and POLLING_AGENT_USERS
Users ==
    [alice |-> "admin", bob |-> "ec_official", carol |-> "polling_agent"]

Roles == {"admin", "ec_official", "polling_agent"}

\* get_user_by_username: the configured role, or "none"
get_user_by_username(username) ==
    IF username \in DOMAIN Users THEN Users[username] ELSE "none"

\* timedelta(hours=8) of the credential admin_login mints
ADMIN_TTL_HOURS == 8
AdminTTL == ADMIN_TTL_HOURS * 60 * 60 * 1000

\* the credential admin_login mints for a configured user at time t
StaffCredential(username, t) ==
    Credential("admin_access", username, None, Users[username], t + AdminTTL)

\* the passwords behind the hashes of ADMIN_USERS, EC_OFFICIAL_USERS and
\* POLLING_AGENT_USERS
Passwords == [alice |-> "pw-a", bob |-> "pw-b", carol |-> "pw-c"]

\* hash_password: ph.hash
hash_password(password) == <<"argon2", password>>

\* verify_password(stored_hash, plain_password): ph.verify, False on any
\* exception
verify_password(stored_hash, plain_password) ==
    stored_hash = hash_password(plain_password)

\* get_all_users_from_env: the users keyed by username
get_all_users_from_env ==
    [u \in DOMAIN Users |->
        [username |-> u, password_hash |-> hash_password(Passwords[u]),
         role |-> Users[u]]]

\* an admin_login that tells an unknown username from a wrong password
LoginChecksUserNotFound(username, password, t) ==
    LET all_users == get_all_users_from_env
    IN  IF DOMAIN all_users = {}
        THEN [status |-> 500, detail |-> "No admin users configured",
              issued |-> FALSE, credential |-> Garbage]
        ELSE IF username \notin DOMAIN all_users
        THEN [status |-> 401, detail |-> "User not found",
              issued |-> FALSE, credential |-> Garbage]
        ELSE IF ~verify_password(all_users[username].password_hash, password)
        THEN [status |-> 401, detail |-> "Invalid credentials",
              issued |-> FALSE, credential |-> Garbage]
        ELSE [status |-> 200, detail |-> "ok", issued |-> TRUE,
              credential |-> StaffCredential(username, t)]

\* the checks of admin_login and its answer; credential is what the caller
\* holds afterwards
LoginChecks(username, password, t) ==
    LET all_users == get_all_users_from_env
    IN  IF DOMAIN all_users = {}
        THEN [status |-> 500, detail |-> "No admin users configured",
              issued |-> FALSE, credential |-> Garbage]
        ELSE IF username \notin DOMAIN all_users
        THEN [status |-> 401, detail |-> "Invalid credentials",
              issued |-> FALSE, credential |-> Garbage]
        ELSE IF ~verify_password(all_users[username].password_hash, password)
        THEN [status |-> 401, detail |-> "Invalid credentials",
              issued |-> FALSE, credential |-> Garbage]
        ELSE [status |-> 200, detail |-> "ok", issued |-> TRUE,
              credential |-> StaffCredential(username, t)]

\* POST /auth/login
admin_login(username, password) ==
    LET chk == LoginChecks(username, password, now)
    IN  /\ response' =
             [op |-> "admin_login", status |-> chk.status,
              detail |-> chk.detail, issued |-> chk.issued,
              credential |-> chk.credential]
        /\ UNCHANGED <<now, nticks, electorates, voting_tokens,
                       voting_sessions, votes, req>>

\* get_current_user without the check of the type claim
get_current_userAnyType(cred, t) ==
    LET dec == decode_token(cred, t)
        payload == dec.payload
    IN  IF ~dec.ok
        THEN [status |-> 500, detail |-> "ValueError", role |-> "none"]
        ELSE IF payload.sub = "none"
        THEN [status |-> 401, detail |-> "Invalid token", role |-> "none"]
        ELSE IF payload.role \notin Roles
        THEN [status |-> 403, detail |-> "Invalid user role", role |-> "none"]
        ELSE IF get_user_by_username(payload.sub) = "none"
        THEN [status |-> 401, detail |-> "User not found", role |-> "none"]
        ELSE IF get_user_by_username(payload.sub) # payload.role
        THEN [status |-> 403, detail |-> "Role mismatch", role |-> "none"]
        ELSE [status |-> 200, detail |-> "ok",
              role |-> get_user_by_username(payload.sub)]

\* get_current_user without the comparison of the role claim with the
\* configured role
get_current_userNoRoleMatch(cred, t) ==
    LET dec == decode_token(cred, t)
        payload == dec.payload
    IN  IF ~dec.ok
        THEN [status |-> 500, detail |-> "ValueError", role |-> "none"]
        ELSE IF payload.type \notin {"admin_access", "access", "none"}
        THEN [status |-> 401, detail |-> "Invalid token type", role |-> "none"]
        ELSE IF payload.sub = "none"
        THEN [status |-> 401, detail |-> "Invalid token", role |-> "none"]
        ELSE IF payload.role \notin Roles
        THEN [status |-> 403, detail |-> "Invalid user role", role |-> "none"]
        ELSE IF get_user_by_username(payload.sub) = "none"
        THEN [status |-> 401, detail |-> "User not found", role |-> "none"]
        ELSE [status |-> 200, detail |-> "ok",
              role |-> get_user_by_username(payload.sub)]

\* get_current_user: the user (status 200) or the error.  decode_token raises
\* ValueError, which the except JWTError clause of get_current_user lets pass
get_current_user(cred, t) ==
    LET dec == decode_token(cred, t)
        payload == dec.payload
    IN  IF ~dec.ok
        THEN [status |-> 500, detail |-> "ValueError", role |-> "none"]
        ELSE IF payload.type \notin {"admin_access", "access", "none"}
        THEN [status |-> 401, detail |-> "Invalid token type", role |-> "none"]
        ELSE IF payload.sub = "none"
        THEN [status |-> 401, detail |-> "Invalid token", role |-> "none"]
        ELSE IF payload.role \notin Roles
        THEN [status |-> 403, detail |-> "Invalid user role", role |-> "none"]
        ELSE IF get_user_by_username(payload.sub) = "none"
        THEN [status |-> 401, detail |-> "User not found", role |-> "none"]
        ELSE IF get_user_by_username(payload.sub) # payload.role
        THEN [status |-> 403, detail |-> "Role mismatch", role |-> "none"]
        ELSE [status |-> 200, detail |-> "ok",
              role |-> get_user_by_username(payload.sub)]

\* get_current_admin
get_current_admin(cred, t) ==
    LET user == get_current_user(cred, t)
    IN  IF user.status # 200 THEN user
        ELSE IF user.role # "admin"
        THEN [status |-> 403, detail |-> "Admin access required",
              role |-> "none"]
        ELSE user

\* ------------------------------------------------------------ TokenIssuer
\* a request to one of the four issuance endpoints of admin_router
IssueRequest(endpoint, ids, exclude_voted, portfolio_id) ==
    [endpoint |-> endpoint, ids |-> ids, exclude_voted |-> exclude_voted,
     portfolio_id |-> portfolio_id]

IssueRequests ==
    {IssueRequest("bulk", ids, TRUE, "none") :
         ids \in {{"e1"}, {"e1", "e2", "e3"}, {"e3", UnknownId}}}
    \cup {IssueRequest("all", {}, b, "none") : b \in BOOLEAN}
    \cup {IssueRequest("portfolio", {}, TRUE, p) : p \in Portfolios}
    \cup {IssueRequest("regenerate", {e}, TRUE, "none") : e \in {"e1", "e3"}}

\* the dependency of the endpoint: get_current_user on regenerate-token,
\* get_current_admin on the three others
IssueAuth(r, cred, t) ==
    IF r.endpoint = "regenerate" THEN get_current_user(cred, t)
    ELSE get_current_admin(cred, t)

\* the electorate_ids list each endpoint hands to
\* generate_tokens_for_electorates
TargetIds(r, voters, rows) ==
    CASE r.endpoint = "all" ->
            {e \in DOMAIN voters :
                /\ ~voters[e].is_deleted
                /\ (r.exclude_voted => ~voters[e].has_voted)}
      [] r.endpoint = "portfolio" ->
            {e \in DOMAIN voters :
                /\ ~voters[e].is_deleted
                /\ ~\E i \in DOMAIN rows :
                       /\ rows[i].electorate_id = e
                       /\ rows[i].portfolio_id = r.portfolio_id
                       /\ rows[i].is_valid}
      [] OTHER -> r.ids

\* select(Electorate).where(id in batch_ids, is_deleted == False)
FetchElectorates(ids, voters) ==
    {e \in ids \cap DOMAIN voters : ~voters[e].is_deleted}

\* an issuance that looks up no earlier token
OldTokensNone(tokens, e) == {}

\* select(VotingToken).where(electorate_id == e, revoked == False)
OldTokens(tokens, e) ==
    {i \in DOMAIN tokens : tokens[i].electorate_id = e /\ ~tokens[i].revoked}

\* an issuance request up to the loop: the dependency, the target ids, the
\* fetch of the electorates
issue_begin(s, cred, r) ==
    LET auth == IssueAuth(r, cred, now)
        fetched == FetchElectorates(TargetIds(r, electorates, votes),
                                    electorates)
    IN  /\ req[s] = Idle
        /\ IF auth.status # 200
           THEN /\ response' =
                     [op |-> "generate_tokens", endpoint |-> r.endpoint,
                      status |-> auth.status, detail |-> auth.detail]
                /\ UNCHANGED req
           ELSE /\ req' = [req EXCEPT ![s] =
                     [kind |-> "generate_tokens", endpoint |-> r.endpoint,
                      portfolio_id |-> r.portfolio_id,
                      ids |-> TargetIds(r, electorates, votes),
                      todo |-> fetched,
                      has_voted |-> [e \in fetched |-> electorates[e].has_voted],
                      revoke |-> {}, added |-> <<>>]]
                /\ UNCHANGED response
        /\ UNCHANGED <<now, nticks, electorates, voting_tokens,
                       voting_sessions, votes>>

\* one pass of the loop without the skip of an electorate that has voted
issue_stepNoSkip(s) ==
    /\ req[s].kind = "generate_tokens"
    /\ req[s].todo # {}
    /\ \E e \in req[s].todo :
          \E i \in 1..NumDraws :
              req' = [req EXCEPT
                 ![s].todo = req[s].todo \ {e},
                 ![s].revoke = req[s].revoke \cup OldTokens(voting_tokens, e),
                 ![s].added =
                     Append(req[s].added,
                            [electorate_id |-> e,
                             token |-> generate_token(i),
                             expires_at |-> now + TokenTTL])]
    /\ UNCHANGED <<now, nticks, electorates, voting_tokens, voting_sessions,
                   votes, response>>

\* one pass of the loop over the fetched electorates
issue_step(s) ==
    /\ req[s].kind = "generate_tokens"
    /\ req[s].todo # {}
    /\ \E e \in req[s].todo :
          IF req[s].has_voted[e]
          THEN req' = [req EXCEPT ![s].todo = req[s].todo \ {e}]
          ELSE \E i \in 1..NumDraws :
                 req' = [req EXCEPT
                    ![s].todo = req[s].todo \ {e},
                    ![s].revoke = req[s].revoke \cup OldTokens(voting_tokens, e),
                    ![s].added =
                        Append(req[s].added,
                               [electorate_id |-> e,
                                token |-> generate_token(i),
                                expires_at |-> now + TokenTTL])]
    /\ UNCHANGED <<now, nticks, electorates, voting_tokens, voting_sessions,
                   votes, response>>

\* a table without the unique index: no flush is refused
IntegrityErrorNoIndex(tokens, added) == FALSE

\* the unique index on voting_tokens.token_hash refuses the flush
IntegrityError(tokens, added) ==
    \/ \E i \in DOMAIN added, j \in DOMAIN tokens :
           hash_token(added[i].token) = tokens[j].token_hash
    \/ \E i, j \in DOMAIN added :
           i # j /\ hash_token(added[i].token) = hash_token(added[j].token)

\* what the flush writes: the old tokens revoked, the new rows inserted
FlushTokens(tokens, revoke, added) ==
    [i \in DOMAIN tokens |->
        IF i \in revoke THEN [tokens[i] EXCEPT !.revoked = TRUE] ELSE tokens[i]]
    \o [i \in DOMAIN added |->
           VotingToken(added[i].electorate_id, hash_token(added[i].token),
                       added[i].expires_at)]

\* db.commit() at the end of generate_tokens_for_electorates, and the answer.
\* regenerate_token_for_electorate answers token None when nothing was
\* generated, which SingleTokenRegenerationResponse (token: str) refuses
issue_commit(s) ==
    /\ req[s].kind = "generate_tokens"
    /\ req[s].todo = {}
    /\ IF IntegrityError(voting_tokens, req[s].added)
       THEN /\ response' =
                 [op |-> "generate_tokens", endpoint |-> req[s].endpoint,
                  status |-> 500, detail |-> "IntegrityError"]
            /\ UNCHANGED voting_tokens
       ELSE /\ voting_tokens' =
                 FlushTokens(voting_tokens, req[s].revoke, req[s].added)
            /\ response' =
                 IF req[s].endpoint = "regenerate" /\ req[s].added = <<>>
                 THEN [op |-> "generate_tokens", endpoint |-> req[s].endpoint,
                       status |-> 500, detail |-> "ResponseValidationError"]
                 ELSE [op |-> "generate_tokens",
                       endpoint |-> req[s].endpoint,
                       status |-> 200, detail |-> "ok",
                       generated_tokens |-> Len(req[s].added),
                       tokens |->
                           [i \in DOMAIN req[s].added |->
                               [electorate_id |-> req[s].added[i].electorate_id,
                                student_id |->
                                    service_to_display(
                                        student_id[req[s].added[i].electorate_id]),
                                token |-> req[s].added[i].token]]]
    /\ req' = [req EXCEPT ![s] = Idle]
    /\ UNCHANGED <<now, nticks, electorates, voting_sessions, votes>>

\* --------------------------------------------------------- specifications
\* the credentials a request may carry
StaffCredentials == {StaffCredential(u, now) : u \in DOMAIN Users}
Credentials == VoterCredentials \cup StaffCredentials \cup {Garbage}

\* ------------------------------------------------------------ RateLimiter
\* is_rate_limited with the limit test one attempt too late
is_rate_limitedOffByOne(limiter, recorded, t) ==
    LET kept == SelectSeq(recorded,
                          LAMBDA attempt_time :
                              t - attempt_time < limiter.window_seconds * 1000)
    IN  IF Len(kept) > limiter.max_attempts
        THEN [limited |-> TRUE, attempts |-> kept]
        ELSE [limited |-> FALSE, attempts |-> Append(kept, t)]

\* is_rate_limited with the refused request recorded as an attempt
is_rate_limitedRecordsRefused(limiter, recorded, t) ==
    LET kept == SelectSeq(recorded,
                          LAMBDA attempt_time :
                              t - attempt_time < limiter.window_seconds * 1000)
    IN  IF Len(kept) >= limiter.max_attempts
        THEN [limited |-> TRUE, attempts |-> Append(kept, t)]
        ELSE [limited |-> FALSE, attempts |-> Append(kept, t)]

\* RateLimiter.is_rate_limited on the attempts recorded for one identifier:
\* the attempts older than the window are dropped, then the request is
\* refused when max_attempts remain, and recorded otherwise
is_rate_limited(limiter, recorded, t) ==
    LET kept == SelectSeq(recorded,
                          LAMBDA attempt_time :
                              t - attempt_time < limiter.window_seconds * 1000)
    IN  IF Len(kept) >= limiter.max_attempts
        THEN [limited |-> TRUE, attempts |-> kept]
        ELSE [limited |-> FALSE, attempts |-> Append(kept, t)]

\* what a decorator does to the records of its limiter
Limit(name, client_ip, outcome) ==
    /\ attempts' = [attempts EXCEPT ![name][client_ip] = outcome.attempts]
    /\ admitted' =
         IF outcome.limited THEN admitted
         ELSE [admitted EXCEPT ![name][client_ip] = Append(@, now)]

\* a decorator that lets the handler run before it answers 429
rate_limit_authAfterHandler(client_ip, raw) ==
    LET outcome ==
            is_rate_limited(Limiters.auth, attempts.auth[client_ip], now)
        chk == VerifyChecks(raw, voting_tokens, electorates, now)
    IN  /\ Limit("auth", client_ip, outcome)
        /\ IF outcome.limited
           THEN /\ response' =
                     [op |-> "verify_voting_id", token |-> raw,
                      status |-> 429,
                      detail |-> "Too many attempts. Please try again later.",
                      session_id |-> None, access_token |-> FALSE]
                /\ IF chk.status = 200
                   THEN /\ Len(voting_sessions) < MaxSessions
                        /\ voting_tokens' =
                             update_token_usage(voting_tokens, chk.token_id,
                                                now)
                        /\ voting_sessions' =
                             Append(voting_sessions,
                                    VotingSession(
                                        voting_tokens[chk.token_id].electorate_id,
                                        now))
                   ELSE UNCHANGED <<voting_tokens, voting_sessions>>
                /\ UNCHANGED <<now, nticks, electorates, votes, req>>
           ELSE verify_voting_id(raw)

\* rate_limit_auth around verify_voting_id
rate_limit_auth(client_ip, raw) ==
    LET outcome ==
            is_rate_limited(Limiters.auth, attempts.auth[client_ip], now)
    IN  /\ Limit("auth", client_ip, outcome)
        /\ IF outcome.limited
           THEN /\ response' =
                     [op |-> "verify_voting_id", token |-> raw,
                      status |-> 429,
                      detail |-> "Too many attempts. Please try again later.",
                      session_id |-> None, access_token |-> FALSE]
                /\ UNCHANGED <<now, nticks, electorates, voting_tokens,
                               voting_sessions, votes, req>>
           ELSE verify_voting_id(raw)

\* rate_limit_voting in front of cast_vote, for a request that has passed
\* get_current_voter and the validation of its body: the decorator answers
\* 429, or records the attempt and awaits the handler (whose steps are the
\* cast_vote actions)
rate_limit_voting(client_ip) ==
    LET outcome ==
            is_rate_limited(Limiters.voting, attempts.voting[client_ip], now)
    IN  /\ Limit("voting", client_ip, outcome)
        /\ response' =
             IF outcome.limited
             THEN [op |-> "cast_vote", status |-> 429,
                   detail |-> "Too many voting attempts. Please wait."]
             ELSE [op |-> "cast_vote", status |-> 0, detail |-> "await func"]
        /\ UNCHANGED <<now, nticks, electorates, voting_tokens,
                       voting_sessions, votes, req>>

\* a step that touches no record of ClientAddresses: a request from another
\* address that its limiter admits, an operation that no limiter guards, or
\* the clock
Unlimited == UNCHANGED <<attempts, admitted>>

Next ==
    \/ \E d \in TickSteps : Tick(d) /\ Unlimited
    \/ \E raw \in RawTokens : verify_voting_id(raw) /\ Unlimited
    \/ \E bearer \in BOOLEAN, cred \in Credentials :
           verify_session(bearer, cred) /\ Unlimited
    \/ \E s \in Slots, cred \in Credentials, batch \in Batches :
           cast_vote_begin(s, cred, batch) /\ Unlimited
    \/ \E s \in Slots : cast_vote_check(s) /\ Unlimited
    \/ \E s \in Slots : cast_vote_insert(s) /\ Unlimited
    \/ \E s \in Slots : cast_vote_finish(s) /\ Unlimited
    \/ \E s \in Slots, cred \in Credentials, r \in IssueRequests :
           issue_begin(s, cred, r) /\ Unlimited
    \/ \E s \in Slots : issue_step(s) /\ Unlimited
    \/ \E s \in Slots : issue_commit(s) /\ Unlimited

Spec == Init /\ [][Next]_vars


\* no request is in flight
Quiet == \A s \in Slots : req[s] = Idle

\* the tokens of the roster as the voters type them
FriendlyTokens ==
    {generate_voting_token(FriendlyCode(e)) : e \in {"e1", "e2"}}

\* two requests of one electorate that run concurrently
ConcBatches ==
    {<<VoteCreate("p1", "c1")>>,
     <<VoteCreate("p1", "c2")>>,
     <<VoteCreate("p1", "c1"), VoteCreate("p2", "c3")>>}
NextVote ==
    \/ \E raw \in FriendlyTokens : verify_voting_id(raw) /\ Unlimited
    \/ \E s \in Slots, cred \in VoterCredentials, batch \in ConcBatches :
           cast_vote_begin(s, cred, batch) /\ Unlimited
    \/ \E s \in Slots : cast_vote_check(s) /\ Unlimited
    \/ \E s \in Slots : cast_vote_insert(s) /\ Unlimited
    \/ \E s \in Slots : cast_vote_finish(s) /\ Unlimited
SpecVote == Init /\ [][NextVote]_vars

\* cast_vote requests one after another
NextVoteSeq ==
    \/ \E raw \in {generate_voting_token(FriendlyCode("e1"))} :
           Quiet /\ verify_voting_id(raw) /\ Unlimited
    \/ \E cred \in VoterCredentials \cup {Garbage}, batch \in Batches :
           Quiet /\ cast_vote_begin(1, cred, batch) /\ Unlimited
    \/ cast_vote_check(1) /\ Unlimited
    \/ cast_vote_insert(1) /\ Unlimited
    \/ cast_vote_finish(1) /\ Unlimited
SpecVoteSeq == Init /\ [][NextVoteSeq]_vars

\* issuance requests that run concurrently, and the tokens they return
IssueTokens == {generate_token(i) : i \in 1..NumDraws}
IssueInputs ==
    {IssueRequest("bulk", {"e1"}, TRUE, "none"),
     IssueRequest("bulk", {"e1", "e2", "e3"}, TRUE, "none"),
     IssueRequest("regenerate", {"e1"}, TRUE, "none")}
NextIssue ==
    \/ \E raw \in IssueTokens : verify_voting_id(raw) /\ Unlimited
    \/ \E s \in Slots, cred \in StaffCredentials, r \in IssueInputs :
           issue_begin(s, cred, r) /\ Unlimited
    \/ \E s \in Slots : issue_step(s) /\ Unlimited
    \/ \E s \in Slots : issue_commit(s) /\ Unlimited
SpecIssue == Init /\ [][NextIssue]_vars

\* issuance requests one after another
NextIssueSeq ==
    \/ \E d \in {TokenTTL} : Quiet /\ Tick(d) /\ Unlimited
    \/ \E raw \in IssueTokens : Quiet /\ verify_voting_id(raw) /\ Unlimited
    \/ \E cred \in StaffCredentials, r \in IssueInputs :
           Quiet /\ issue_begin(1, cred, r) /\ Unlimited
    \/ issue_step(1) /\ Unlimited
    \/ issue_commit(1) /\ Unlimited
SpecIssueSeq == Init /\ [][NextIssueSeq]_vars

\* issuance and the verification of what it revokes: the tokens it returned
\* and the token of the roster
RevokeTokens == IssueTokens \cup {generate_voting_token(FriendlyCode("e1"))}
NextRevoke ==
    \/ \E d \in {TokenTTL} : Quiet /\ Tick(d) /\ Unlimited
    \/ \E raw \in RevokeTokens : Quiet /\ verify_voting_id(raw) /\ Unlimited
    \/ \E cred \in StaffCredentials, r \in IssueInputs :
           Quiet /\ issue_begin(1, cred, r) /\ Unlimited
    \/ issue_step(1) /\ Unlimited
    \/ issue_commit(1) /\ Unlimited
SpecRevoke == Init /\ [][NextRevoke]_vars

\* token verification as the clock passes the expiry of the tokens
NextExpiry ==
    \/ \E d \in {1, TokenTTL} : Tick(d) /\ Unlimited
    \/ \E raw \in RawTokens : verify_voting_id(raw) /\ Unlimited
SpecExpiry == Init /\ [][NextExpiry]_vars

\* sessions: their creation, their check and their use as the clock passes
\* their expiry
AuthCredentials ==
    VoterCredentials \cup {Garbage, StaffCredential("alice", now)}
NextAuth ==
    \/ \E d \in {1, SessionTTL} : Tick(d) /\ Unlimited
    \/ \E raw \in {generate_voting_token(FriendlyCode("e1"))} :
           verify_voting_id(raw) /\ Unlimited
    \/ \E bearer \in BOOLEAN, cred \in AuthCredentials :
           verify_session(bearer, cred) /\ Unlimited
    \/ \E cred \in AuthCredentials, batch \in {<<>>} :
           Quiet /\ cast_vote_begin(1, cred, batch) /\ Unlimited
SpecAuth == Init /\ [][NextAuth]_vars

\* the two kinds of credential at the endpoints of the other kind
CredInputs ==
    {IssueRequest("bulk", {"e3", UnknownId}, TRUE, "none"),
     IssueRequest("regenerate", {"e3"}, TRUE, "none")}
NextCred ==
    \/ \E d \in {SessionTTL} : Quiet /\ Tick(d) /\ Unlimited
    \/ \E raw \in {generate_voting_token(FriendlyCode("e1"))} :
           Quiet /\ verify_voting_id(raw) /\ Unlimited
    \/ \E cred \in Credentials, batch \in {<<>>} :
           Quiet /\ cast_vote_begin(1, cred, batch) /\ Unlimited
    \/ \E cred \in Credentials, r \in CredInputs :
           Quiet /\ issue_begin(1, cred, r) /\ Unlimited
    \/ issue_commit(1) /\ Unlimited
SpecCred == Init /\ [][NextCred]_vars

\* ------------------------------------------------------------ properties
\* the valid votes of an electorate for a portfolio
ValidVotes(rows, e, p) ==
    {i \in DOMAIN rows :
        rows[i].electorate_id = e /\ rows[i].portfolio_id = p
        /\ rows[i].is_valid}

\* C1: two concurrent cast_vote requests of one electorate for the same
\* portfolio leave exactly one valid Vote row for the pair, whatever the
\* interleaving of their check and insert steps: no state holds two
C1_OneValidVotePerPair ==
    \A e \in Electorates, p \in Portfolios :
        Cardinality(ValidVotes(votes, e, p)) <= 1

\* C2: when cast_vote requests run one after another, a pair for a portfolio
\* the electorate already has a valid vote for is refused with the
\* already-voted reason, inserts no row, leaves every stored row as it was,
\* and so no step yields two valid votes for one pair
C2_SequentialRevoteRefused ==
    [][/\ \A i \in DOMAIN votes :
             i \in DOMAIN votes' /\ votes'[i] = votes[i]
       /\ (/\ cast_vote_check(1)
           /\ ValidVotes(votes, req[1].electorate,
                         Head(req[1].todo).portfolio_id) # {})
          => /\ votes' = votes
             /\ req'[1].pc = "check"
             /\ req'[1].failed_votes =
                    Append(req[1].failed_votes,
                           FailedVote(Head(req[1].todo),
                                      "Already voted for this portfolio"))
       /\ \A e \in Electorates, p \in Portfolios :
              Cardinality(ValidVotes(votes', e, p)) <= 1]_vars

\* a second choice for a portfolio was answered with the already-voted
\* reason while the first choice is the one stored
C2_Witness ==
    /\ response.op = "cast_vote"
    /\ response.status = 200
    /\ \E k \in DOMAIN response.failed_votes :
          /\ response.failed_votes[k].error = "Already voted for this portfolio"
          /\ \E i \in DOMAIN votes :
                /\ votes[i].electorate_id = response.electorate
                /\ votes[i].portfolio_id = response.failed_votes[k].portfolio_id
                /\ votes[i].candidate_id # response.failed_votes[k].candidate_id
                /\ votes[i].is_valid

\* the tokens of an electorate that are not revoked and not expired at t
ActiveTokens(tokens, e, t) ==
    {i \in DOMAIN tokens :
        /\ tokens[i].electorate_id = e
        /\ ~tokens[i].revoked
        /\ ~(t > tokens[i].expires_at)}

\* the rows whose stored hash is the hash of the plaintext raw, as the issuer
\* hashes what it returns
RowsOf(tokens, raw) ==
    {i \in DOMAIN tokens : tokens[i].token_hash = hash_token(raw)}

\* C3: the plaintext token that issuance returned for an eligible electorate,
\* presented unchanged to verify_voting_id before its expiry and with no
\* re-issue in between, is accepted: a session of that electorate with the
\* 30-minute TTL is created and a voter credential is returned
C3_IssuedTokenAccepted ==
    [][\A i \in 1..NumDraws :
          (/\ verify_voting_id(generate_token(i))
           /\ \E k \in RowsOf(voting_tokens, generate_token(i)) :
                 /\ ~voting_tokens[k].revoked
                 /\ ~(now > voting_tokens[k].expires_at)
                 /\ ~electorates[voting_tokens[k].electorate_id].is_deleted
                 /\ ~electorates[voting_tokens[k].electorate_id].has_voted)
          => /\ response'.status = 200
             /\ response'.access_token
             /\ Len(voting_sessions') = Len(voting_sessions) + 1
             /\ \E k \in RowsOf(voting_tokens, generate_token(i)) :
                   voting_sessions'[Len(voting_sessions')] =
                       VotingSession(voting_tokens[k].electorate_id, now)]_vars

C4_CredentialTypesNotInterchangeable ==
    [][/\ \A cred \in Credentials, r \in CredInputs :
             (issue_begin(1, cred, r) /\ cred.type = "voting_session")
             => /\ req' = req
                /\ response'.op = "generate_tokens"
                /\ response'.status # 200
                /\ decode_token(cred, now).ok
                      => /\ response'.status = 401
                         /\ response'.detail = "Invalid token type"
       /\ \A cred \in Credentials :
             (cast_vote_begin(1, cred, <<>>) /\ cred.type = "admin_access")
             => /\ req' = req
                /\ voting_sessions' = voting_sessions
                /\ response'.op = "cast_vote"
                /\ response'.status = 401
                /\ response'.detail = "Invalid token type"]_vars

\* the credential of a live session was presented to an issuance endpoint
\* and refused for its type
C4_Witness ==
    /\ response.op = "generate_tokens"
    /\ response.status = 401
    /\ response.detail = "Invalid token type"
    /\ \E sid \in DOMAIN voting_sessions :
          /\ voting_sessions[sid].is_valid
          /\ ~(now > voting_sessions[sid].expires_at)

\* a token that passes the format checks of verify_voting_id
WellFormed(raw) ==
    /\ Strip(raw) # <<>>
    /\ Len(normalize_token(Strip(raw))) = EXPECTED_TOKEN_LENGTH
    /\ IsAlnum(normalize_token(Strip(raw)))

\* the row verify_voting_id looks up for raw, or None
Lookup(tokens, raw) ==
    get_voting_token_by_hash(tokens, sha256(normalize_token(Strip(raw))))

\* C8: a well-formed token whose stored expires_at is earlier than the
\* current time is answered TokenExpired (401) and creates no session, used
\* or not, revoked or not; the token row is left as it is
C8_ExpiredTokenRejected ==
    [][response'.op = "verify_voting_id" =>
         LET raw == response'.token
         IN  (/\ verify_voting_id(raw)
              /\ WellFormed(raw)
              /\ Lookup(voting_tokens, raw) # None
              /\ voting_tokens[Lookup(voting_tokens, raw)].expires_at < now)
             => /\ response'.status = 401
                /\ response'.detail = "Token expired"
                /\ response'.session_id = None
                /\ ~response'.access_token
                /\ voting_sessions' = voting_sessions
                /\ voting_tokens' = voting_tokens]_vars

\* a token never used and never revoked was presented after its expiry and
\* answered TokenExpired
C8_Witness ==
    /\ response.op = "verify_voting_id"
    /\ response.detail = "Token expired"
    /\ WellFormed(response.token)
    /\ Lookup(voting_tokens, response.token) # None
    /\ LET row == voting_tokens[Lookup(voting_tokens, response.token)]
       IN  /\ row.expires_at < now
           /\ row.usage_count = 0
           /\ ~row.revoked

\* the sessions of an electorate that are valid at t
ValidSessions(sessions, e, t) ==
    {i \in DOMAIN sessions :
        /\ sessions[i].electorate_id = e
        /\ sessions[i].is_valid
        /\ ~(t > sessions[i].expires_at)}

\* C9: in every reachable state each electorate has at most one session
\* that is valid (is_valid and not past expires_at): a verification that
\* creates a session terminates the older ones
C9_AtMostOneValidSession ==
    \A e \in Electorates :
        Cardinality(ValidSessions(voting_sessions, e, now)) <= 1

\* C10: verify_session reports valid only when the credential decodes,
\* carries a session id, the session exists, its is_valid flag is true and
\* the clock is not past its expires_at; in every other case it answers 401
\* and reports no expires_in
C10_VerifySessionValidOnlyWhenLive ==
    [][\A bearer \in BOOLEAN, cred \in AuthCredentials :
          (response'.op = "verify_session" /\ verify_session(bearer, cred))
          => /\ response'.valid
                  => /\ bearer
                     /\ decode_token(cred, now).ok
                     /\ cred.session_id # None
                     /\ cred.session_id \in DOMAIN voting_sessions
                     /\ voting_sessions[cred.session_id].is_valid
                     /\ ~(now > voting_sessions[cred.session_id].expires_at)
                     /\ response'.status = 200
             /\ ~response'.valid
                  => /\ response'.status = 401
                     /\ response'.expires_in = None]_vars

\* a live session was reported valid, and its remaining seconds with it
C10_Witness ==
    /\ response.op = "verify_session"
    /\ response.valid
    /\ response.status = 200
    /\ response.expires_in # None
    /\ response.session_id \in DOMAIN voting_sessions

\* ------------------------------------------------- voting over time
\* one electorate votes for one portfolio per request, one request after
\* another, while the clock moves between the requests
ClockBatches == {<<VoteCreate("p1", "c1")>>, <<VoteCreate("p2", "c3")>>}

NextVoteClock ==
    \/ \E d \in {1} : Quiet /\ Tick(d) /\ Unlimited
    \/ \E raw \in {generate_voting_token(FriendlyCode("e1"))} :
           Quiet /\ verify_voting_id(raw) /\ Unlimited
    \/ \E cred \in VoterCredentials, batch \in ClockBatches :
           Quiet /\ cast_vote_begin(1, cred, batch) /\ Unlimited
    \/ cast_vote_check(1) /\ Unlimited
    \/ cast_vote_insert(1) /\ Unlimited
    \/ cast_vote_finish(1) /\ Unlimited
SpecVoteClock == Init /\ [][NextVoteClock]_vars

\* ------------------------------------------- issuance after voting
\* electorate e1 votes for portfolio p2 only; an admin issues tokens before
\* and after that, one request at a time
VotedBatches == {<<VoteCreate("p2", "c3")>>}
VotedInputs ==
    {IssueRequest("bulk", {"e1", "e2", "e3"}, TRUE, "none"),
     IssueRequest("regenerate", {"e1"}, TRUE, "none"),
     IssueRequest("portfolio", {}, TRUE, "p1"),
     IssueRequest("portfolio", {}, TRUE, "p2")}

NextIssueVoted ==
    \/ \E raw \in {generate_voting_token(FriendlyCode("e1"))} :
           Quiet /\ verify_voting_id(raw) /\ Unlimited
    \/ \E cred \in VoterCredentials, batch \in VotedBatches :
           Quiet /\ cast_vote_begin(1, cred, batch) /\ Unlimited
    \/ cast_vote_check(1) /\ Unlimited
    \/ cast_vote_insert(1) /\ Unlimited
    \/ cast_vote_finish(1) /\ Unlimited
    \/ \E cred \in {StaffCredential("alice", now)}, r \in VotedInputs :
           Quiet /\ issue_begin(1, cred, r) /\ Unlimited
    \/ issue_step(1) /\ Unlimited
    \/ issue_commit(1) /\ Unlimited
SpecIssueVoted == Init /\ [][NextIssueVoted]_vars

DuplicatePortfolioInBatch(batch) ==
    \E i, j \in DOMAIN batch :
        i < j /\ batch[i].portfolio_id = batch[j].portfolio_id

InvalidCandidate ==
    {"Candidate not found", "Candidate does not belong to this portfolio",
     "Candidate is not active"}

\* the candidate of the pair exists, is active and stands for its portfolio
GoodCandidate(portfolio_id, candidate_id) ==
    /\ candidate_id \in DOMAIN Candidates
    /\ Candidates[candidate_id].portfolio_id = portfolio_id
    /\ Candidates[candidate_id].is_active

VoteErrors == InvalidCandidate \cup {"Already voted for this portfolio"}

\* C14: the answer of cast_vote accounts for every submitted pair:
\* votes_cast + |failed_votes| is the number of submitted pairs, every pair is
\* either stored as a Vote row of this request or listed in failed_votes with
\* its portfolio id, candidate id and a reason, pairs after a failed one are
\* processed all the same, and success is true exactly when votes_cast >= 1
C14_EveryOutcomeReported ==
    [][cast_vote_finish(1)
         => LET batch == req[1].batch
                failed == response'.failed_votes
                stored == response'.votes
            IN  /\ response'.status = 200
                /\ response'.votes_cast = Len(stored)
                /\ response'.votes_cast + Len(failed) = Len(batch)
                /\ response'.success <=> response'.votes_cast >= 1
                /\ \A k \in DOMAIN failed :
                       /\ failed[k].error \in VoteErrors
                       /\ \E j \in DOMAIN batch :
                              /\ batch[j].portfolio_id = failed[k].portfolio_id
                              /\ batch[j].candidate_id = failed[k].candidate_id
                /\ \A j \in DOMAIN batch :
                       \/ \E k \in DOMAIN failed :
                              /\ batch[j].portfolio_id = failed[k].portfolio_id
                              /\ batch[j].candidate_id = failed[k].candidate_id
                       \/ \E k \in DOMAIN stored :
                              /\ stored[k] \in DOMAIN votes'
                              /\ votes'[stored[k]].electorate_id
                                     = req[1].electorate
                              /\ votes'[stored[k]].portfolio_id
                                     = batch[j].portfolio_id
                              /\ votes'[stored[k]].candidate_id
                                     = batch[j].candidate_id]_vars

\* a batch of two pairs was answered with one failure and one success: the
\* pair after the failed one was stored
C14_Witness ==
    /\ response.op = "cast_vote"
    /\ response.status = 200
    /\ response.success
    /\ response.votes_cast = 1
    /\ Len(response.failed_votes) = 1
    /\ response.failed_votes[1].portfolio_id = "p1"
    /\ votes[response.votes[1]].portfolio_id = "p2"

\* ---------------------------------------------------------------- C15
\* C15: a cast_vote request in which at least one pair succeeded leaves its
\* electorate with has_voted = true and a voted_at; a request in which every
\* pair failed leaves has_voted and voted_at of every electorate as they
\* were; no step takes has_voted from true back to false
C15_HasVotedFollowsSuccess ==
    [][/\ cast_vote_finish(1)
            => IF response'.votes_cast >= 1
               THEN /\ electorates'[req[1].electorate].has_voted
                    /\ electorates'[req[1].electorate].voted_at # None
                    /\ \A e \in DOMAIN electorates \ {req[1].electorate} :
                           electorates'[e] = electorates[e]
               ELSE electorates' = electorates
       /\ \A e \in DOMAIN electorates :
              electorates[e].has_voted => electorates'[e].has_voted]_vars

\* a request with a stored vote was answered and its electorate is marked
C15_Witness ==
    /\ response.op = "cast_vote"
    /\ response.status = 200
    /\ response.votes_cast >= 1
    /\ electorates[response.electorate].has_voted
    /\ electorates[response.electorate].voted_at # None

\* ---------------------------------------------------------------- C16
\* C16: has_voted and voted_at are set once: when an electorate whose
\* has_voted is already true completes a later cast_vote request with a
\* success, voted_at keeps the value written by the first successful cast
C16_VotedAtWrittenOnce ==
    [][\A e \in DOMAIN electorates :
          electorates[e].has_voted
            => /\ electorates'[e].has_voted
               /\ electorates'[e].voted_at = electorates[e].voted_at]_vars

\* ---------------------------------------------------------------- C17
\* the rows of electorate e in the token table
TokensOf(tokens, e) == {i \in DOMAIN tokens : tokens[i].electorate_id = e}

\* the electorates of ids that generate_tokens_for_electorates gives a token
Eligible(ids, voters) ==
    {e \in ids \cap DOMAIN voters :
        ~voters[e].is_deleted /\ ~voters[e].has_voted}

PartialVoter(rows, e) ==
    /\ \E p \in Portfolios : ValidVotes(rows, e, p) # {}
    /\ \E p \in Portfolios : ValidVotes(rows, e, p) = {}

\* C19: the regeneration of the token of a non-deleted electorate that has
\* valid votes for some portfolios but not for all succeeds: the answer is
\* 200 with one fresh token, and the older tokens of the electorate are
\* revoked
C19_RegenerateWorksForPartialVoter ==
    [][(/\ issue_commit(1)
        /\ req[1].endpoint = "regenerate"
        /\ ~IntegrityError(voting_tokens, req[1].added))
         => \A e \in req[1].ids \cap DOMAIN electorates :
               (~electorates[e].is_deleted /\ PartialVoter(votes, e))
                 => /\ response'.status = 200
                    /\ response'.generated_tokens = 1
                    /\ response'.tokens[1].electorate_id = e
                    /\ \A i \in TokensOf(voting_tokens, e) :
                           voting_tokens'[i].revoked]_vars

\* ---------------------------------------------------------------- C20
\* the non-deleted electorates without a valid vote for portfolio p
NotVotedFor(rows, voters, p) ==
    {e \in DOMAIN voters :
        ~voters[e].is_deleted /\ ValidVotes(rows, e, p) = {}}

\* C20: an issuance for portfolio p gives a fresh token to exactly the
\* non-deleted electorates without a valid vote for p, those that voted for
\* other portfolios included, and to no electorate with a valid vote for p
C20_PortfolioIssueReachesNonVoters ==
    [][(/\ issue_commit(1)
        /\ req[1].endpoint = "portfolio"
        /\ ~IntegrityError(voting_tokens, req[1].added))
         => /\ response'.status = 200
            /\ {response'.tokens[k].electorate_id :
                    k \in DOMAIN response'.tokens}
                 = NotVotedFor(votes, electorates, req[1].portfolio_id)]_vars

\* ---------------------------------------------------------------- C21
\* h is a digest, not a text
IsDigest(h) == Len(h) = 2 /\ h[1] = "sha256"

\* C21: the plaintext of a voting token leaves the program once, in the
\* answer of the issuance call that created its row, and is never stored:
\* every token row holds a digest, each plaintext of an issuance answer
\* belongs to a row inserted by that very commit, and no other answer
\* carries issued tokens
C21_PlaintextReturnedOnceNeverStored ==
    [][/\ \A i \in DOMAIN voting_tokens' :
             /\ IsDigest(voting_tokens'[i].token_hash)
             /\ \A j \in 1..NumDraws :
                    voting_tokens'[i].token_hash # generate_token(j)
       /\ (issue_commit(1) /\ response'.status = 200)
            => \A k \in DOMAIN response'.tokens :
                  \E i \in DOMAIN voting_tokens' \ DOMAIN voting_tokens :
                     /\ voting_tokens'[i].token_hash
                            = sha256(normalize_token(response'.tokens[k].token))
                     /\ voting_tokens'[i].electorate_id
                            = response'.tokens[k].electorate_id
       /\ (response' # response /\ ~issue_commit(1))
            => "tokens" \notin DOMAIN response']_vars

\* an issuance was answered with a plaintext whose digest, and not the
\* plaintext, is in the store
C21_Witness ==
    /\ response.op = "generate_tokens"
    /\ response.status = 200
    /\ response.generated_tokens >= 1
    /\ \E i \in DOMAIN voting_tokens :
          /\ voting_tokens[i].token_hash
                = sha256(normalize_token(response.tokens[1].token))
          /\ voting_tokens[i].token_hash # response.tokens[1].token

\* ---------------------------------------------------------------- C22
\* every input of verify_voting_id, before and after the tokens expire
NextNormal ==
    \/ \E d \in {TokenTTL} : Tick(d) /\ Unlimited
    \/ \E raw \in RawTokens : verify_voting_id(raw) /\ Unlimited
SpecNormal == Init /\ [][NextNormal]_vars

\* the form two inputs are compared in: hyphens and spaces removed, letters
\* upper-cased
NormalForm(raw) == Upper(Remove(Remove(raw, "-"), " "))

\* the digest verify_voting_id looks up for an input
VerifierDigest(raw) == sha256(normalize_token(Strip(raw)))

\* the plaintexts the issuers hand out
IssuedPlaintexts ==
    {generate_token(i) : i \in 1..NumDraws}
    \cup {generate_voting_token(FriendlyCode(e)) : e \in Electorates}

OrderTokens ==
    {<<" ">>,
     generate_token(1),
     <<"A", "B", "2", "3", "A", "B", "2", "!">>,
     <<"B", "B", "B", "B", "A", "A", "A", "A">>,
     generate_voting_token(FriendlyCode("e1")),
     generate_voting_token(FriendlyCode("e3"))}

\* the token of e1 is verified before and after it is revoked by a new
\* issuance and before and after it expires
NextOrder ==
    \/ \E d \in {TokenTTL} : Quiet /\ Tick(d) /\ Unlimited
    \/ \E raw \in OrderTokens : Quiet /\ verify_voting_id(raw) /\ Unlimited
    \/ \E cred \in {StaffCredential("alice", now)},
          r \in {IssueRequest("bulk", {"e1"}, TRUE, "none")} :
           Quiet /\ issue_begin(1, cred, r) /\ Unlimited
    \/ issue_step(1) /\ Unlimited
    \/ issue_commit(1) /\ Unlimited
SpecOrder == Init /\ [][NextOrder]_vars

\* the answer carries this status and this detail
Answered(r, status, detail) == r.status = status /\ r.detail = detail

\* C23: verify_voting_id answers with the error of the first failing check
\* in the order empty, length, alphanumeric, digest lookup, expiry, revoked,
\* owning electorate: 400 for the empty and the format errors, 401 for
\* invalid, expired and revoked, 404 for a missing or soft-deleted voter; a
\* token both expired and revoked is answered as expired
C23_FirstFailingCheckAnswers ==
    [][(response' # response /\ response'.op = "verify_voting_id")
         => LET raw == response'.token
                clean == normalize_token(Strip(raw))
                id == Lookup(voting_tokens, raw)
            IN  IF Strip(raw) = <<>>
                THEN Answered(response', 400, "Token cannot be empty")
                ELSE IF Len(clean) # EXPECTED_TOKEN_LENGTH
                THEN Answered(response', 400, "Invalid token format")
                ELSE IF ~IsAlnum(clean)
                THEN Answered(response', 400, "Token must be alphanumeric")
                ELSE IF id = None
                THEN Answered(response', 401, "Invalid token")
                ELSE /\ now > voting_tokens[id].expires_at
                         => Answered(response', 401, "Token expired")
                     /\ (/\ now <= voting_tokens[id].expires_at
                         /\ voting_tokens[id].revoked)
                         => Answered(response', 401, "Token revoked")
                     /\ (/\ now <= voting_tokens[id].expires_at
                         /\ ~voting_tokens[id].revoked
                         /\ electorates[voting_tokens[id].electorate_id]
                                .is_deleted)
                         => Answered(response', 404, "Voter not found")
                     /\ response'.status \in {200, 500}
                         => /\ now <= voting_tokens[id].expires_at
                            /\ ~voting_tokens[id].revoked
                            /\ ~electorates[voting_tokens[id].electorate_id]
                                   .is_deleted]_vars

\* a token that is both expired and revoked was answered as expired
C23_Witness ==
    /\ response.op = "verify_voting_id"
    /\ response.detail = "Token expired"
    /\ Lookup(voting_tokens, response.token) # None
    /\ LET row == voting_tokens[Lookup(voting_tokens, response.token)]
       IN  row.expires_at < now /\ row.revoked

\* ---------------------------------------------------------------- C24
\* the usernames and passwords presented to admin_login
LoginNames == {"alice", "bob", "mallory"}
LoginPasswords == {"pw-a", "pw-b", "wrong"}

\* a member of staff logs in and uses the credential of the answer, fresh or
\* hours later, on the issuance endpoints
NextLogin ==
    \/ \E d \in {1, AdminTTL} : Quiet /\ Tick(d) /\ Unlimited
    \/ \E username \in LoginNames, password \in LoginPasswords :
           Quiet /\ admin_login(username, password) /\ Unlimited
    \/ \E r \in {IssueRequest("bulk", {"e1"}, TRUE, "none"),
                  IssueRequest("regenerate", {"e1"}, TRUE, "none")} :
           /\ Quiet
           /\ response.op = "admin_login"
           /\ issue_begin(1, response.credential, r) /\ Unlimited
    \/ issue_step(1) /\ Unlimited
    \/ issue_commit(1) /\ Unlimited
SpecLogin == Init /\ [][NextLogin]_vars

\* C24: a login with a configured username and a wrong password and a login
\* with a username that is not configured get the identical answer, 401
\* "Invalid credentials", and neither gets a credential
C24_LoginFailuresIndistinguishable ==
    [][\A username \in LoginNames, password \in LoginPasswords :
          (/\ admin_login(username, password)
           /\ \/ username \notin DOMAIN Users
              \/ Passwords[username] # password)
            => /\ response'.status = 401
               /\ response'.detail = "Invalid credentials"
               /\ ~response'.issued
               /\ ~response'.credential.signed
               /\ \A other \in LoginNames, guess \in LoginPasswords :
                      (\/ other \notin DOMAIN Users
                       \/ Passwords[other] # guess)
                        => [op |-> "admin_login"]
                             @@ LoginChecks(other, guess, now) = response']_vars

\* a failed login was answered, and the credential it left the caller with
\* is refused by the staff middleware
C24_Witness ==
    /\ response.op = "admin_login"
    /\ response.status = 401
    /\ response.detail = "Invalid credentials"
    /\ ~response.issued
    /\ get_current_user(response.credential, now).status # 200

\* ---------------------------------------------------------------- C25
\* credentials minted under an earlier configuration: bob was an admin,
\* alice had a role that no longer exists, dave has been removed
StaleCredentials ==
    {Credential("admin_access", "bob", None, "admin", AdminTTL),
     Credential("admin_access", "alice", None, "superuser", AdminTTL),
     Credential("admin_access", "dave", None, "admin", AdminTTL)}

\* what a request to a staff endpoint may carry: the credentials minted at
\* the start for the configured users, the stale ones, an unsigned string
StaffInputs ==
    {StaffCredential(u, 0) : u \in DOMAIN Users}
    \cup StaleCredentials \cup {Garbage}

StaffRequests ==
    {IssueRequest("bulk", {"e1"}, TRUE, "none"),
     IssueRequest("regenerate", {"e1"}, TRUE, "none")}

\* staff requests with each credential, while the credentials age
NextStaff ==
    \/ \E d \in {AdminTTL} : Quiet /\ Tick(d) /\ Unlimited
    \/ \E cred \in StaffInputs, r \in StaffRequests :
           Quiet /\ issue_begin(1, cred, r) /\ Unlimited
    \/ issue_step(1) /\ Unlimited
    \/ issue_commit(1) /\ Unlimited
SpecStaff == Init /\ [][NextStaff]_vars

\* C25: every staff request re-checks its credential against the current
\* configuration: a credential that decodes is refused with 403 when its
\* role is not a known role or differs from the role configured for its
\* username, refused when its username is not configured, and refused with
\* 403 on an admin-only endpoint when its role is not admin; a refused
\* request starts no issuance
C25_StaffCredentialRechecked ==
    [][\A cred \in StaffInputs, r \in StaffRequests :
          (issue_begin(1, cred, r) /\ decode_token(cred, now).ok)
            => /\ cred.role \notin Roles
                    => response'.status = 403 /\ req' = req
               /\ (cred.role \in Roles /\ cred.sub \notin DOMAIN Users)
                    => response'.status = 401 /\ req' = req
               /\ (/\ cred.role \in Roles
                   /\ cred.sub \in DOMAIN Users
                   /\ Users[cred.sub] # cred.role)
                    => response'.status = 403 /\ req' = req
               /\ (r.endpoint # "regenerate" /\ cred.role # "admin")
                    => /\ req' = req
                       /\ cred.sub \in DOMAIN Users
                            => response'.status = 403
               /\ req' # req
                    => /\ cred.sub \in DOMAIN Users
                       /\ Users[cred.sub] = cred.role]_vars

\* bob's credential with the role claim admin was refused on the endpoint
\* open to every staff role
C25_Witness ==
    /\ response.op = "generate_tokens"
    /\ response.endpoint = "regenerate"
    /\ response.status = 403
    /\ response.detail = "Role mismatch"
    /\ req[1] = Idle

\* ---------------------------------------------------------------- C26
\* C26: a request whose credential does not decode (malformed, wrongly
\* signed or expired) is answered with 401, never with 500, at the voter
\* endpoints (get_current_voter) and at the staff endpoints
\* (get_current_user)
C26_BadCredentialIsUnauthorized ==
    [][\A cred \in Credentials :
          ~decode_token(cred, now).ok
            => /\ cast_vote_begin(1, cred, <<>>) => response'.status = 401
               /\ \A r \in CredInputs :
                      issue_begin(1, cred, r) => response'.status = 401]_vars

\* ---------------------------------------------------------------- C27
\* the address that keeps asking, and how many admissions of an address
\* are followed
BusyAddress == "10.0.0.1"
Followed(history, name, client_ip) ==
    Len(history[name][client_ip])
      <= (IF client_ip = BusyAddress
          THEN Limiters[name].max_attempts + MaxExtra
          ELSE MaxExtra)

\* the clock steps of the limiter scenario: the window of the voting
\* limiter, and what is left of the window of the authentication limiter
LimitSteps ==
    {Limiters.voting.window_seconds * 1000,
     (Limiters.auth.window_seconds - Limiters.voting.window_seconds) * 1000}

\* a guess at a token: well formed, issued to nobody
GuessedToken == <<"B", "B", "B", "B", "A", "A", "A", "A">>

\* the limiter name has admitted none of ClientAddresses
Unused(name) == admitted[name] = NoAttempts[name]

\* clients guessing tokens, or clients casting votes, through the limiter of
\* their endpoint: the two limiters share no record, and one of them is
\* followed in a behaviour
NextLimit ==
    \/ \E d \in LimitSteps : Tick(d) /\ Unlimited
    \/ \E client_ip \in ClientAddresses, raw \in {GuessedToken} :
           /\ Unused("voting")
           /\ rate_limit_auth(client_ip, raw)
           /\ Followed(admitted', "auth", client_ip)
    \/ \E client_ip \in ClientAddresses :
           /\ Unused("auth")
           /\ rate_limit_voting(client_ip)
           /\ Followed(admitted', "voting", client_ip)
SpecLimit == Init /\ [][NextLimit]_vars

\* the admissions of an address that lie in the window that ends at t
Recent(history, name, client_ip, t) ==
    {j \in DOMAIN history[name][client_ip] :
        t - history[name][client_ip][j] < Limiters[name].window_seconds * 1000}

\* no window of window_seconds that starts at an admission holds more than
\* max_attempts admissions of one address
WindowsWithinLimit(history) ==
    \A name \in DOMAIN Limiters, client_ip \in ClientAddresses :
        \A i \in DOMAIN history[name][client_ip] :
            Cardinality(
                {j \in DOMAIN history[name][client_ip] :
                    /\ history[name][client_ip][i]
                         <= history[name][client_ip][j]
                    /\ history[name][client_ip][j]
                         < history[name][client_ip][i]
                           + Limiters[name].window_seconds * 1000})
              <= Limiters[name].max_attempts

\* a request of client_ip at the limiter name is answered 429 exactly when
\* max_attempts admissions of that address lie in the window, a refused
\* request is not recorded, and the records of the other address and of the
\* other limiter stay as they are
LimiterAnswers(name, client_ip) ==
    /\ response'.status = 429
         <=> Cardinality(Recent(admitted, name, client_ip, now))
               >= Limiters[name].max_attempts
    /\ response'.status = 429 => admitted' = admitted
    /\ response'.status # 429
         => admitted'[name][client_ip]
              = Append(admitted[name][client_ip], now)
    /\ \A other \in ClientAddresses \ {client_ip} :
           /\ attempts'[name][other] = attempts[name][other]
           /\ admitted'[name][other] = admitted[name][other]
    /\ \A l \in DOMAIN Limiters \ {name} :
           attempts'[l] = attempts[l] /\ admitted'[l] = admitted[l]

\* C27: for each client address and each limiter (authentication 10 per
\* 300 s, voting 5 per 60 s) at most max_attempts requests are admitted in
\* any window of window_seconds, every further request of the address in
\* the window is answered 429, and what one address is answered does not
\* depend on the requests of another
C27_AtMostMaxAttemptsPerWindow ==
    [][/\ WindowsWithinLimit(admitted')
       /\ \A client_ip \in ClientAddresses :
              /\ rate_limit_auth(client_ip, GuessedToken)
                   => LimiterAnswers("auth", client_ip)
              /\ rate_limit_voting(client_ip)
                   => LimiterAnswers("voting", client_ip)]_vars

\* the busy address, admitted again when its first window had passed, is
\* refused at the authentication limiter, and the other address has been
\* admitted there in the meantime
C27_Witness ==
    /\ response.status = 429
    /\ \A name \in {"auth"} :
           /\ Cardinality(Recent(admitted, name, BusyAddress, now))
                = Limiters[name].max_attempts
           /\ Len(admitted[name][BusyAddress]) > Limiters[name].max_attempts
           /\ \E j \in DOMAIN admitted[name]["10.0.0.2"] :
                  admitted[name]["10.0.0.2"][j]
                    >= admitted[name][BusyAddress][1]

\* ---------------------------------------------------------------- C28
\* round(x, 2) of x = num / den >= 0, in hundredths: the nearest hundredth,
\* the even one of two that are equally near
Round2(num, den) ==
    LET q == (num * 100) \div den
        r == (num * 100) % den
    IN  IF 2 * r > den THEN q + 1
        ELSE IF 2 * r = den THEN q + (q % 2)
        ELSE q

\* the turnout cut off after the second decimal place
turnout_percentageTruncated(voted, total) ==
    IF total > 0 THEN (voted * 100 * 100) \div total ELSE 0

\* round((voted / total * 100) if total > 0 else 0, 2), in hundredths
turnout_percentage(voted, total) ==
    IF total > 0 THEN Round2(voted * 100, total) ELSE 0

\* the three counts of get_token_statistics
CountElectorates(rows) ==
    Cardinality({e \in DOMAIN rows : ~rows[e].is_deleted})
CountVoted(rows) ==
    Cardinality({e \in DOMAIN rows :
                    ~rows[e].is_deleted /\ rows[e].has_voted})
CountActiveTokens(tokens, t) ==
    Cardinality({i \in DOMAIN tokens :
                    /\ ~tokens[i].revoked
                    /\ tokens[i].is_active
                    /\ tokens[i].expires_at > t})

\* BulkTokenGenerator.get_token_statistics
get_token_statistics ==
    LET total == CountElectorates(electorates)
        voted == CountVoted(electorates)
    IN  /\ response' =
             [op |-> "get_token_statistics", status |-> 200,
              detail |-> "ok",
              total_electorates |-> total,
              voted_electorates |-> voted,
              voters_remaining |-> total - voted,
              active_tokens |-> CountActiveTokens(voting_tokens, now),
              turnout_percentage |-> turnout_percentage(voted, total)]
        /\ UNCHANGED <<now, nticks, electorates, voting_tokens,
                       voting_sessions, votes, req>>

\* the statistics asked for while e1 logs in once and votes, tokens are
\* issued anew and the tokens of the roster expire
StatsInputs ==
    {IssueRequest("bulk", {"e2"}, TRUE, "none"),
     IssueRequest("regenerate", {"e1"}, TRUE, "none")}
NextStats ==
    \/ \E d \in {TokenTTL} : Quiet /\ Tick(d) /\ Unlimited
    \/ \E raw \in {generate_voting_token(FriendlyCode("e1"))} :
           /\ Quiet /\ voting_sessions = <<>>
           /\ verify_voting_id(raw) /\ Unlimited
    \/ \E cred \in VoterCredentials, batch \in VotedBatches :
           Quiet /\ cast_vote_begin(1, cred, batch) /\ Unlimited
    \/ cast_vote_check(1) /\ Unlimited
    \/ cast_vote_insert(1) /\ Unlimited
    \/ cast_vote_finish(1) /\ Unlimited
    \/ \E cred \in {StaffCredential("alice", now)}, r \in StatsInputs :
           Quiet /\ issue_begin(1, cred, r) /\ Unlimited
    \/ issue_step(1) /\ Unlimited
    \/ issue_commit(1) /\ Unlimited
    \/ Quiet /\ get_token_statistics /\ Unlimited
SpecStats == Init /\ [][NextStats]_vars

\* the turnout of voted out of total is 0 for an empty roster and otherwise
\* a number of hundredths nearest to voted / total * 100
TurnoutIsRounded(turnout, voted, total) ==
    IF total = 0 THEN turnout = 0
    ELSE /\ 2 * (turnout * total - voted * 100 * 100) <= total
         /\ 2 * (voted * 100 * 100 - turnout * total) <= total

\* C28: get_token_statistics counts the electorates that are not deleted,
\* returns remaining = total - voted with 0 <= voted <= total, a turnout of
\* 0 when total = 0 and otherwise voted / total * 100 rounded to 2 decimal
\* places (for every roster of up to MaxRoster electorates), and the number
\* of tokens that are not revoked, flagged active and expire after now
C28_StatisticsAreConsistent ==
    [][(response' # response /\ response'.op = "get_token_statistics")
            => /\ \A total \in 0..MaxRoster, voted \in 0..MaxRoster :
                      voted <= total
                        => TurnoutIsRounded(turnout_percentage(voted, total),
                                            voted, total)
               /\ response'.total_electorates
                    = Cardinality(Electorates \ SoftDeleted)
               /\ response'.voted_electorates >= 0
               /\ response'.voted_electorates <= response'.total_electorates
               /\ response'.voters_remaining
                    = response'.total_electorates
                        - response'.voted_electorates
               /\ response'.voters_remaining
                    = Cardinality({e \in Electorates \ SoftDeleted :
                                      ~electorates[e].has_voted})
               /\ TurnoutIsRounded(response'.turnout_percentage,
                                   response'.voted_electorates,
                                   response'.total_electorates)
               /\ response'.active_tokens
                    = Len(SelectSeq(voting_tokens,
                                    LAMBDA row :
                                        /\ ~row.revoked
                                        /\ row.is_active
                                        /\ ~(row.expires_at <= now)))
      ]_vars

\* e1 has voted, its fresh token and the first token of e2 and e3 are
\* active: one of two has voted, a turnout of 50.00
C28_Witness ==
    /\ response.op = "get_token_statistics"
    /\ response.total_electorates = 2
    /\ response.voted_electorates = 1
    /\ response.voters_remaining = 1
    /\ response.turnout_percentage = 5000
    /\ response.active_tokens > 0
    /\ \E i \in DOMAIN voting_tokens : voting_tokens[i].revoked

\* ---------------------------------------------------------------- C29
\* the two classes named StudentIDConverter
Converters == {"schemas", "service"}
ToStorage(converter, id) ==
    IF converter = "schemas" THEN to_storage(id) ELSE service_to_storage(id)
ToDisplay(converter, id) ==
    IF converter = "schemas" THEN to_display(id) ELSE service_to_display(id)

\* the IDs handed to the converters: the stored ones, display forms as a
\* client types them, and the display IDs of the last issuance response
StudentIdInputs ==
    {student_id[e] : e \in Electorates}
    \cup {<<"A", "B", "/", "2", "3">>, <<"a", "b", "/", "2", "3">>,
          <<"B", "a", "/", "3", "2">>, <<>>}
    \cup (IF response.op = "generate_tokens" /\ response.status = 200
          THEN {response.tokens[i].student_id : i \in DOMAIN response.tokens}
          ELSE {})

\* one call of a converter
convert(converter, direction, id) ==
    /\ response' =
         [op |-> direction, status |-> 200, detail |-> "ok",
          converter |-> converter, input |-> id,
          output |-> IF direction = "to_storage"
                     THEN ToStorage(converter, id)
                     ELSE ToDisplay(converter, id)]
    /\ UNCHANGED <<now, nticks, electorates, voting_tokens, voting_sessions,
                   votes, req>>

\* conversions of student IDs next to the issuance of tokens
NextConvert ==
    \/ \E converter \in Converters, direction \in {"to_storage", "to_display"},
          id \in StudentIdInputs :
           Quiet /\ convert(converter, direction, id) /\ Unlimited
    \/ \E cred \in {StaffCredential("alice", now)},
          r \in {IssueRequest("bulk", {"e1", "e2"}, TRUE, "none"),
                  IssueRequest("regenerate", {"e2"}, TRUE, "none")} :
           Quiet /\ issue_begin(1, cred, r) /\ Unlimited
    \/ issue_step(1) /\ Unlimited
    \/ issue_commit(1) /\ Unlimited
SpecConvert == Init /\ [][NextConvert]_vars

\* hyphen-separated, as normalize leaves an ID; slash-separated, as a
\* client types an ID
IsStorageForm(id) ==
    /\ id = Upper(Strip(id))
    /\ \E i \in DOMAIN id : id[i] = "-"
    /\ \A i \in DOMAIN id : id[i] # "/"
IsDisplayForm(id) ==
    /\ id = Strip(id)
    /\ \E i \in DOMAIN id : id[i] = "/"
    /\ \A i \in DOMAIN id : id[i] # "-"

\* C29: the conversion between the storage form and the display form of a
\* student ID loses nothing but the case: a storage-form ID that was
\* converted to its display form converts back to itself, a display-form ID
\* that was converted to its storage form converts back to itself in upper
\* case, and the display ID returned with an issued token converts back to
\* the stored student_id of its electorate
C29_ConversionIsLosslessUpToCase ==
    /\ (response.op = "to_display" /\ IsStorageForm(response.input))
         => ToStorage(response.converter, response.output) = response.input
    /\ (response.op = "to_storage" /\ IsDisplayForm(response.input))
         => ToDisplay(response.converter, response.output)
              = Upper(response.input)
    /\ (response.op = "generate_tokens" /\ response.status = 200)
         => \A i \in DOMAIN response.tokens, converter \in Converters :
                ToStorage(converter, response.tokens[i].student_id)
                  = student_id[response.tokens[i].electorate_id]

\* ---------------------------------------------------------------- C30
\* a voter who logs in, asks for the state of the session and presents the
\* credential at the voting endpoint while the session runs out
NextSession ==
    \/ \E d \in {1, SessionTTL} : Tick(d) /\ Unlimited
    \/ \E raw \in {generate_voting_token(FriendlyCode("e1"))} :
           verify_voting_id(raw) /\ Unlimited
    \/ \E cred \in VoterCredentials :
           verify_session(TRUE, cred) /\ Unlimited
    \/ \E cred \in VoterCredentials, batch \in {<<>>} :
           Quiet /\ cast_vote_begin(1, cred, batch) /\ Unlimited
SpecSession == Init /\ [][NextSession]_vars

\* C30: no step removes a VotingSession row or gives a row to another
\* electorate; a row whose is_valid is false keeps it false, with its
\* reason and its terminated_at; and when get_current_voter is given the
\* credential of a session that is still valid and past its expires_at, the
\* row is terminated (is_valid false, reason and terminated_at set) and
\* the request is refused
C30_SessionsKeptAndTerminationPermanent ==
    [][/\ Len(voting_sessions') >= Len(voting_sessions)
       /\ \A i \in DOMAIN voting_sessions :
              /\ voting_sessions'[i].electorate_id
                   = voting_sessions[i].electorate_id
              /\ voting_sessions'[i].expires_at
                   = voting_sessions[i].expires_at
              /\ ~voting_sessions[i].is_valid
                   => voting_sessions'[i] = voting_sessions[i]
       /\ \A cred \in VoterCredentials :
              (/\ cast_vote_begin(1, cred, <<>>)
               /\ decode_token(cred, now).ok
               /\ voting_sessions[cred.session_id].is_valid
               /\ voting_sessions[cred.session_id].expires_at < now)
                => /\ ~voting_sessions'[cred.session_id].is_valid
                   /\ voting_sessions'[cred.session_id].termination_reason
                        = "Session expired"
                   /\ voting_sessions'[cred.session_id].terminated_at = now
                   /\ response'.status = 401
                   /\ req' = req]_vars

\* the voting endpoint has refused the credential of a session that it
\* found past its expiry, and the row is terminated
C30_Witness ==
    /\ response.op = "cast_vote"
    /\ response.status = 401
    /\ response.detail = "Session expired. Please login again."
    /\ \E i \in DOMAIN voting_sessions :
           /\ ~voting_sessions[i].is_valid
           /\ voting_sessions[i].termination_reason = "Session expired"
           /\ voting_sessions[i].terminated_at = now
           /\ voting_sessions[i].expires_at < now

\* ---------------------------------------------------------------- C31
\* what the voting endpoint is given: the credentials of the sessions, an
\* unsigned string and the credential of a staff user
CastCredentials ==
    VoterCredentials \cup {Garbage, StaffCredential("alice", now)}
CastBatches == {<<VoteCreate("p1", "c1")>>, <<VoteCreate("p2", "c3")>>}

\* e1 logs in once and votes while the session runs out
NextCast ==
    \/ \E d \in {1, SessionTTL} : Quiet /\ Tick(d) /\ Unlimited
    \/ \E raw \in {generate_voting_token(FriendlyCode("e1"))} :
           /\ Quiet /\ voting_sessions = <<>>
           /\ verify_voting_id(raw) /\ Unlimited
    \/ \E cred \in CastCredentials, batch \in CastBatches :
           Quiet /\ cast_vote_begin(1, cred, batch) /\ Unlimited
    \/ cast_vote_check(1) /\ Unlimited
    \/ cast_vote_insert(1) /\ Unlimited
    \/ cast_vote_finish(1) /\ Unlimited
SpecCast == Init /\ [][NextCast]_vars

\* the credential is of voter type and names an electorate that exists and
\* is not soft-deleted and a session that exists, is valid, is not past its
\* expires_at and belongs to that electorate
Authenticated(cred) ==
    /\ cred.signed
    /\ cred.type = "voting_session"
    /\ cred.sub \in Electorates \ SoftDeleted
    /\ ~electorates[cred.sub].is_deleted
    /\ cred.session_id \in DOMAIN voting_sessions
    /\ voting_sessions[cred.session_id].is_valid
    /\ ~(voting_sessions[cred.session_id].expires_at < now)
    /\ voting_sessions[cred.session_id].electorate_id = cred.sub

\* C31: a cast_vote request gets past its authentication only with a
\* credential of voter type that names an existing, not soft-deleted
\* electorate and an existing, valid, unexpired session of that electorate,
\* and a Vote row is inserted only by such a request, for its electorate
C31_VotesOnlyFromAuthenticatedRequests ==
    [][/\ \A cred \in CastCredentials, batch \in CastBatches :
              (cast_vote_begin(1, cred, batch) /\ req' # req)
                => /\ Authenticated(cred)
                   /\ req'[1].electorate = cred.sub
                   /\ req'[1].session_id = cred.session_id
       /\ Len(votes') > Len(votes)
            => \E s \in Slots :
                  /\ req[s].kind = "cast_vote"
                  /\ \A i \in (DOMAIN votes') \ (DOMAIN votes) :
                         /\ votes'[i].electorate_id = req[s].electorate
                         /\ votes'[i].voting_session_id = req[s].session_id]_vars

\* a vote of e1 is recorded, and the voting endpoint has refused the
\* credential of the session since, the session being past its expiry
C31_Witness ==
    /\ \E i \in DOMAIN votes : votes[i].electorate_id = "e1"
    /\ response.op = "cast_vote"
    /\ response.status = 401
    /\ \E i \in DOMAIN voting_sessions : ~voting_sessions[i].is_valid

\* ---------------------------------------------------------------- C32
\* e1 and e2 log in and vote, each with the credential of a session
OwnerBatches == {<<VoteCreate("p1", "c1")>>, <<VoteCreate("p2", "c3")>>}
NextOwner ==
    \/ \E raw \in FriendlyTokens : Quiet /\ verify_voting_id(raw) /\ Unlimited
    \/ \E cred \in VoterCredentials, batch \in OwnerBatches :
           Quiet /\ cast_vote_begin(1, cred, batch) /\ Unlimited
    \/ cast_vote_check(1) /\ Unlimited
    \/ cast_vote_insert(1) /\ Unlimited
    \/ cast_vote_finish(1) /\ Unlimited
SpecOwner == Init /\ [][NextOwner]_vars

\* C32: a session is created for the electorate that owns the token that was
\* presented; a request records its votes for the electorate that its
\* credential names; and every Vote row with a voting_session_id refers to
\* a VotingSession of the electorate of the vote
C32_VotesBelongToCredentialAndSession ==
    [][/\ \A raw \in FriendlyTokens :
              (verify_voting_id(raw)
               /\ Len(voting_sessions') > Len(voting_sessions))
                => voting_sessions'[Len(voting_sessions')].electorate_id
                     = voting_tokens[
                           get_voting_token_by_hash(
                               voting_tokens,
                               hash_voting_token(raw))].electorate_id
       /\ \A cred \in VoterCredentials, batch \in OwnerBatches :
              (cast_vote_begin(1, cred, batch) /\ req' # req)
                => /\ req'[1].electorate = cred.sub
                   /\ req'[1].session_id = cred.session_id
       /\ \A i \in (DOMAIN votes') \ (DOMAIN votes) :
              \E s \in Slots :
                  /\ req[s].kind = "cast_vote"
                  /\ votes'[i].electorate_id = req[s].electorate
                  /\ votes'[i].voting_session_id = req[s].session_id
       /\ \A i \in DOMAIN votes' :
              votes'[i].voting_session_id # None
                => /\ votes'[i].voting_session_id \in DOMAIN voting_sessions'
                   /\ voting_sessions'[votes'[i].voting_session_id].electorate_id
                        = votes'[i].electorate_id]_vars

\* e1 and e2 have each a vote that refers to a session of their own
C32_Witness ==
    \A e \in {"e1", "e2"} :
        \E i \in DOMAIN votes :
            /\ votes[i].electorate_id = e
            /\ votes[i].voting_session_id \in DOMAIN voting_sessions
            /\ voting_sessions[votes[i].voting_session_id].electorate_id = e

\* ---------------------------------------------------------------- C33
\* e1 and then e2 log in, once each, before the voting starts; then
\* requests of one credential run side by side
MarkBatches ==
    {<<VoteCreate("p1", "c1")>>,
     <<VoteCreate("p1", "c2"), VoteCreate("p2", "c3")>>}
NextMark ==
    \/ \E e \in {"e1", "e2"} :
           /\ Quiet /\ votes = <<>>
           /\ Len(voting_sessions) = (IF e = "e1" THEN 0 ELSE 1)
           /\ verify_voting_id(generate_voting_token(FriendlyCode(e)))
           /\ Unlimited
    \/ \E s \in Slots, cred \in VoterCredentials, batch \in MarkBatches :
           cast_vote_begin(s, cred, batch) /\ Unlimited
    \/ \E s \in Slots : cast_vote_check(s) /\ Unlimited
    \/ \E s \in Slots : cast_vote_insert(s) /\ Unlimited
    \/ \E s \in Slots : cast_vote_finish(s) /\ Unlimited
SpecMark == Init /\ [][NextMark]_vars

\* the electorate has a Vote row that counts
HasValidVote(e) ==
    \E i \in DOMAIN votes : votes[i].electorate_id = e /\ votes[i].is_valid

\* C33: whenever no cast_vote request is in progress, has_voted of an
\* electorate is true exactly when it has a valid Vote row, and its voted_at
\* is set exactly when has_voted is true
C33_HasVotedIffValidVote ==
    Quiet =>
        \A e \in Electorates :
            /\ electorates[e].has_voted <=> HasValidVote(e)
            /\ (electorates[e].voted_at # None) <=> electorates[e].has_voted

\* two requests of e1 have run side by side and both have ended; e1 is
\* marked while e2, who has logged in, is not
C33_Witness ==
    /\ Quiet
    /\ response.op = "cast_vote"
    /\ electorates["e1"].has_voted
    /\ electorates["e1"].voted_at # None
    /\ Cardinality({i \in DOMAIN votes : votes[i].electorate_id = "e1"}) >= 2
    /\ ~electorates["e2"].has_voted
    /\ \E sid \in DOMAIN voting_sessions :
           voting_sessions[sid].electorate_id = "e2"

VerificationFailures == {400, 401, 404}

\* C35: a verification refused by one of its checks (empty, format, digest
\* not found, expired, revoked, voter missing or soft-deleted) creates no
\* session, returns no credential and leaves every row of the store,
\* the token's usage counter and revoked flag among them, as it was
C35_FailedVerificationChangesNothing ==
    [][\A raw \in OrderTokens :
          (verify_voting_id(raw) /\ response'.status \in VerificationFailures)
            => /\ voting_sessions' = voting_sessions
               /\ voting_tokens' = voting_tokens
               /\ electorates' = electorates
               /\ votes' = votes
               /\ response'.session_id = None
               /\ ~response'.access_token]_vars

\* the token of e1, used once and then revoked by a new issuance, is refused;
\* its row still counts one use and the one session of e1 is the only one
C35_Witness ==
    /\ response.op = "verify_voting_id"
    /\ response.status = 401
    /\ response.detail = "Token revoked"
    /\ response.token = generate_voting_token(FriendlyCode("e1"))
    /\ voting_tokens[Lookup(voting_tokens, response.token)].usage_count = 1
    /\ Len(voting_sessions) = 1

\* ---------------------------------------------------------------- C36
\* _get_permissions_for_role: the permissions get_all_users_from_env gives
\* to the users of a role
get_permissions_for_role(role) ==
    CASE role = "admin" ->
           {"manage_portfolios", "manage_candidates", "manage_elections",
            "manage_electorates", "generate_tokens", "view_results",
            "manage_users"}
      [] role = "ec_official" ->
           {"generate_tokens", "view_electorates", "verify_voters"}
      [] role = "polling_agent" -> {"view_results", "view_statistics"}
      [] OTHER -> {}

\* the configured users whose permissions do not include generate_tokens
UsersWithoutGenerateTokens ==
    {u \in DOMAIN Users :
         "generate_tokens" \notin get_permissions_for_role(Users[u])}

\* the four token-issuance endpoints, called by those users only, with the
\* credentials admin_login minted for them
AgentRequests ==
    {IssueRequest("all", {}, TRUE, "none"),
     IssueRequest("bulk", {"e1"}, TRUE, "none"),
     IssueRequest("portfolio", {}, TRUE, "p1"),
     IssueRequest("regenerate", {"e1"}, TRUE, "none")}
NextAgent ==
    \/ \E d \in {1, AdminTTL} : Quiet /\ Tick(d) /\ Unlimited
    \/ \E u \in UsersWithoutGenerateTokens, r \in AgentRequests :
           Quiet /\ issue_begin(1, StaffCredential(u, 0), r) /\ Unlimited
    \/ issue_step(1) /\ Unlimited
    \/ issue_commit(1) /\ Unlimited
SpecAgent == Init /\ [][NextAgent]_vars

UniqueInputs ==
    [s \in Slots |->
        IF s = 1
        THEN {IssueRequest("bulk", {"e1", "e2"}, TRUE, "none")}
        ELSE {IssueRequest("bulk", {"e2"}, TRUE, "none")}]
NextUnique ==
    \/ \E s \in Slots, r \in UNION {UniqueInputs[x] : x \in Slots} :
           /\ r \in UniqueInputs[s]
           /\ issue_begin(s, StaffCredential("alice", now), r) /\ Unlimited
    \/ \E s \in Slots : issue_step(s) /\ Unlimited
    \/ \E s \in Slots : issue_commit(s) /\ Unlimited
SpecUnique == Init /\ [][NextUnique]_vars

\* no two rows of the table have the same token_hash
UniqueHashes(tokens) ==
    \A i, j \in DOMAIN tokens :
        tokens[i].token_hash = tokens[j].token_hash => i = j

\* C37: no two VotingToken rows, of whatever state or electorate, have the
\* same token_hash, so that a digest resolves to at most one electorate; an
\* issuance one of whose new tokens has the digest of an existing row or of
\* another new token persists nothing
C37_TokenHashIsUnique ==
    [][/\ UniqueHashes(voting_tokens)
       /\ UniqueHashes(voting_tokens')
       /\ \A s \in Slots :
              (/\ issue_commit(s)
               /\ \/ \E i \in DOMAIN req[s].added :
                         \E j \in DOMAIN voting_tokens :
                             voting_tokens[j].token_hash
                               = hash_token(req[s].added[i].token)
                  \/ \E i, j \in DOMAIN req[s].added :
                         /\ i # j
                         /\ req[s].added[i].token = req[s].added[j].token)
                => /\ voting_tokens' = voting_tokens
                   /\ response'.status = 500]_vars

\* an issuance was refused at its commit while the table holds a revoked row
\* and a row that an earlier issuance inserted
C37_Witness ==
    /\ response.op = "generate_tokens"
    /\ response.status = 500
    /\ response.detail = "IntegrityError"
    /\ Len(voting_tokens) > Cardinality(Electorates)
    /\ \E i \in DOMAIN voting_tokens : voting_tokens[i].revoked

\* ---------------------------------------------------------------- C38
\* a request of client_ip at the limiter name: a refusal adds nothing to the
\* attempts recorded for the address; the request is admitted when the oldest
\* recorded attempt is at least window_seconds old; an attempt that old is
\* dropped, and the answer counts the younger ones only
RetryAnswers(name, client_ip) ==
    LET recorded == attempts[name][client_ip]
        kept == attempts'[name][client_ip]
        window == Limiters[name].window_seconds * 1000
    IN  /\ response'.status = 429
             => /\ Len(kept) <= Len(recorded)
                /\ \A j \in DOMAIN kept :
                       \E i \in DOMAIN recorded : kept[j] = recorded[i]
        /\ (recorded # <<>> /\ now - recorded[1] >= window)
             => /\ response'.status # 429
                /\ kept[Len(kept)] = now
        /\ \A j \in DOMAIN kept : now - kept[j] < window
        /\ response'.status = 429
             <=> Cardinality({i \in DOMAIN recorded : now - recorded[i] < window})
                   >= Limiters[name].max_attempts

\* C38: the limiter does not record the request it refuses, so a client that
\* is refused and keeps asking is admitted again as soon as its oldest
\* recorded attempt is window_seconds old, and an attempt older than
\* window_seconds does not count toward the limit
C38_RefusalIsNotALockout ==
    [][/\ \A name \in DOMAIN Limiters, client_ip \in ClientAddresses :
              Len(attempts'[name][client_ip]) <= Limiters[name].max_attempts
       /\ \A client_ip \in ClientAddresses :
              /\ rate_limit_auth(client_ip, GuessedToken)
                   => RetryAnswers("auth", client_ip)
              /\ rate_limit_voting(client_ip)
                   => RetryAnswers("voting", client_ip)]_vars

\* the busy address was refused at the voting limiter, and since then its
\* oldest recorded attempt has become window_seconds old
C38_Witness ==
    /\ response.op = "cast_vote"
    /\ response.status = 429
    /\ Len(attempts.voting[BusyAddress]) = Limiters.voting.max_attempts
    /\ now - attempts.voting[BusyAddress][1]
         >= Limiters.voting.window_seconds * 1000

\* ---------------------------------------------------------------- C39
\* POST /voting/vote as a client sends it: the dependency get_current_voter
\* and the validation of the body come first and answer without the limiter;
\* then rate_limit_voting answers 429, or records the attempt and awaits
\* cast_vote, which the cast_vote actions continue. A session is followed
\* for as many requests as the limiter admits in a window, and MaxExtra more
rate_limited_cast_vote(s, client_ip, cred, batch) ==
    LET auth == get_current_voter(cred, electorates, voting_sessions, now)
        outcome ==
            is_rate_limited(Limiters.voting, attempts.voting[client_ip], now)
    IN  /\ req[s] = Idle
        /\ \A i \in DOMAIN auth.sessions :
               auth.sessions[i].activity_count
                 <= Limiters.voting.max_attempts + MaxExtra
        /\ voting_sessions' = auth.sessions
        /\ IF auth.status # 200
           THEN /\ response' =
                     [op |-> "cast_vote", status |-> auth.status,
                      detail |-> auth.detail]
                /\ UNCHANGED req
                /\ Unlimited
           ELSE IF ~VotingCreation(batch)
           THEN /\ response' =
                     [op |-> "cast_vote", status |-> 422,
                      detail |-> VotingCreationError(batch)]
                /\ UNCHANGED req
                /\ Unlimited
           ELSE /\ Limit("voting", client_ip, outcome)
                /\ IF outcome.limited
                   THEN /\ response' =
                             [op |-> "cast_vote", status |-> 429,
                              detail |->
                                  "Too many voting attempts. Please wait."]
                        /\ UNCHANGED req
                   ELSE /\ req' = [req EXCEPT ![s] =
                             [kind |-> "cast_vote", pc |-> "check",
                              electorate |-> auth.voter,
                              session_id |-> cred.session_id,
                              batch |-> batch, todo |-> batch,
                              votes |-> <<>>, failed_votes |-> <<>>]]
                        /\ UNCHANGED response
        /\ UNCHANGED <<now, nticks, electorates, voting_tokens, votes>>

\* one client that verifies the token of e1 and guesses tokens until the
\* authentication limiter refuses it, or that casts votes, with the credential
\* of a session opened from another address, until the voting limiter
\* refuses it
ThrottleTokens == {GuessedToken, generate_voting_token(FriendlyCode("e1"))}
ThrottleBatches == {<<VoteCreate("p1", "c1")>>, <<VoteCreate("p2", "c3")>>}
NextThrottle ==
    \/ \E d \in {Limiters.voting.window_seconds * 1000} :
           Quiet /\ Tick(d) /\ Unlimited
    \/ \E raw \in ThrottleTokens :
           /\ Quiet /\ Unused("voting")
           /\ rate_limit_auth(BusyAddress, raw)
           /\ Followed(admitted', "auth", BusyAddress)
    \/ \E raw \in {generate_voting_token(FriendlyCode("e1"))} :
           /\ Quiet /\ Unused("auth") /\ voting_sessions = <<>>
           /\ verify_voting_id(raw) /\ Unlimited
    \/ \E cred \in VoterCredentials, batch \in ThrottleBatches :
           /\ Quiet /\ Unused("auth")
           /\ rate_limited_cast_vote(1, BusyAddress, cred, batch)
           /\ Followed(admitted', "voting", BusyAddress)
    \/ cast_vote_check(1) /\ Unlimited
    \/ cast_vote_insert(1) /\ Unlimited
    \/ cast_vote_finish(1) /\ Unlimited
SpecThrottle == Init /\ [][NextThrottle]_vars

\* the rows of the store that a refused request leaves alone
RefusedChangesNothing ==
    /\ Len(voting_sessions') = Len(voting_sessions)
    /\ votes' = votes
    /\ voting_tokens' = voting_tokens
    /\ electorates' = electorates
    /\ req' = req

\* C39: a verification or a vote answered 429 creates no session and no
\* Vote row and changes no VotingToken and no Electorate row; a verification
\* that the limiter admits is recorded as an attempt of the client, whether
\* it then succeeds or fails
C39_RefusedRequestHasNoEffect ==
    [][/\ \A raw \in ThrottleTokens :
              rate_limit_auth(BusyAddress, raw)
                => /\ response'.status = 429
                        => /\ RefusedChangesNothing
                           /\ voting_sessions' = voting_sessions
                   /\ response'.status # 429
                        => /\ attempts'.auth[BusyAddress] # <<>>
                           /\ attempts'.auth[BusyAddress][
                                  Len(attempts'.auth[BusyAddress])] = now
                           /\ admitted'.auth[BusyAddress]
                                = Append(admitted.auth[BusyAddress], now)
       /\ \A cred \in VoterCredentials, batch \in ThrottleBatches :
              (/\ rate_limited_cast_vote(1, BusyAddress, cred, batch)
               /\ response'.status = 429
               /\ admitted' = admitted)
                => RefusedChangesNothing]_vars

\* the client, whose token was verified and then refused by a limiter, is
\* answered 429; the one verification that succeeded is among its recorded
\* attempts
C39_Witness ==
    /\ response.op = "verify_voting_id"
    /\ response.status = 429
    /\ response.token = generate_voting_token(FriendlyCode("e1"))
    /\ Len(voting_sessions) = 1
    /\ voting_sessions[1].expires_at - SessionTTL
         \in {attempts.auth[BusyAddress][i] :
                  i \in DOMAIN attempts.auth[BusyAddress]}
    /\ voting_tokens[Lookup(voting_tokens, response.token)].usage_count = 1

====
